---------------------------- MODULE Spec2Model ----------------------------
(***************************************************************************)
(* Backup/restore orchestration of the e-commerce administration backend:  *)
(* the primary restore route  router.post('/restore')  of                  *)
(* backend/routes/database.js and the independent recovery channel         *)
(* app.post('/api/emergency/restore')  of the emergency recovery server.   *)
(*                                                                         *)
(* A request is served in a slot.  A slot records the position of the     *)
(* request handler (pc), the handler's local variables (filename,          *)
(* responsesSent, timeout), the spawned child process and what has been    *)
(* written to the HTTP response.  Node runs every handler and callback to  *)
(* its next await atomically, so each action below is one such run.        *)
(*                                                                         *)
(* Strings are sequences of tokens ("ecommerce_backup_1", ".sql", "/",     *)
(* "..", ...), so that endsWith, startsWith and path.join are computed on  *)
(* the text and not assumed.                                               *)
(*                                                                         *)
(* The catalog routes (the backup listings of both servers and the         *)
(* last-backup lookup of the system status) are functions of the backup    *)
(* directory; the middleware emergencyAuth of the recovery channel is a    *)
(* function of the Authorization header, with base64 computed on bytes.    *)
(* Each has its own specification, in which one request is served.         *)
(*                                                                         *)
(* Beside them: the recovery log (logRecovery and the logs endpoint), the  *)
(* backup producer router.post('/backup'), the registration route          *)
(* router.post('/register') with requests in flight together, the query    *)
(* console router.post('/query') and router.post('/execute-query'), and    *)
(* the recovery channel's login and middleware under any configuration of  *)
(* EMERGENCY_CREDENTIALS.  Each has its own specification too.             *)
(***************************************************************************)
EXTENDS Integers, Sequences, FiniteSets, TLC

VARIABLES
    op,         \* slot -> the request served in it
    db,         \* rows of the reference table (users) of ecommerce_db
    last,       \* the last restore that ran to exit code 0: file and row count
    served,     \* number of requests accepted so far
    catalog,    \* the last reading of the backup directory and its answer
    http,       \* the last exchange with the recovery channel's middleware
    log,        \* the recovery log file and the last answer of the logs endpoint
    dump,       \* the backup request being served by router.post('/backup')
    accounts,   \* the users and cart tables and the registrations in flight
    console,    \* the last request to the query console and what came of it
    env         \* EMERGENCY_CREDENTIALS as the recovery server read them at its start

\* the state of the services beside the restore routes and the catalog
services == <<log, dump, accounts, console, env>>

vars == <<op, db, last, served, catalog, http, services>>

----------------------------------------------------------------------------
(* Bounds *)

\* number of requests the model serves in one behaviour
MaxRequests == 2

\* requests that may be in flight at the same time
Slots == {1, 2}

\* number of files in the backup directory when it is listed
MaxFiles == 2

\* birthtime and mtime of a file are instants 1..MaxTime
MaxTime == 2

\* length of the text a bearer token is made from
MaxTextLen == 4

----------------------------------------------------------------------------
(* Program constants *)

\* path.join(__dirname, '..', '..', 'backups') / path.join(__dirname, '..', 'backups')
BACKUPS_DIR == <<"/", "app", "/", "backups">>

----------------------------------------------------------------------------
(* Text and paths *)

\* String.prototype.endsWith
EndsWith(s, suffix) ==
    /\ Len(s) >= Len(suffix)
    /\ SubSeq(s, Len(s) - Len(suffix) + 1, Len(s)) = suffix

\* String.prototype.startsWith
StartsWith(s, prefix) ==
    /\ Len(s) >= Len(prefix)
    /\ SubSeq(s, 1, Len(prefix)) = prefix

RECURSIVE SplitPath(_, _, _)
\* the segments of a path: the text between separators
SplitPath(toks, cur, acc) ==
    IF toks = <<>>
    THEN IF cur = <<>> THEN acc ELSE Append(acc, cur)
    ELSE IF Head(toks) = "/"
         THEN SplitPath(Tail(toks), <<>>,
                        IF cur = <<>> THEN acc ELSE Append(acc, cur))
         ELSE SplitPath(Tail(toks), Append(cur, Head(toks)), acc)

RECURSIVE Resolve(_, _)
\* path.normalize: "." is dropped, ".." removes the segment before it
Resolve(segs, out) ==
    IF segs = <<>> THEN out
    ELSE IF Head(segs) = <<".">> THEN Resolve(Tail(segs), out)
    ELSE IF Head(segs) = <<"..">>
         THEN Resolve(Tail(segs),
                      IF out = <<>> THEN out ELSE SubSeq(out, 1, Len(out) - 1))
         ELSE Resolve(Tail(segs), Append(out, Head(segs)))

RECURSIVE Flatten(_)
Flatten(segs) ==
    IF segs = <<>> THEN <<>>
    ELSE <<"/">> \o Head(segs) \o Flatten(Tail(segs))

\* path.join(dir, name) of an absolute dir
PathJoin(dir, name) ==
    Flatten(Resolve(SplitPath(dir \o <<"/">> \o name, <<>>, <<>>), <<>>))

----------------------------------------------------------------------------
(* The file system and the database the routes work on *)

Rows == {"u1", "u2"}

\* Files on disk.  markers: which of CREATE / INSERT / COPY the raw bytes
\* contain; rows: the users rows a dump loads; dropCreate: the dump was made
\* with --clean --if-exists --create and so begins with DROP DATABASE /
\* CREATE DATABASE.
Disk ==
    { [path |-> BACKUPS_DIR \o <<"/", "ecommerce_backup_1", ".sql">>,
       size |-> 1024, markers |-> {"CREATE", "COPY"},
       rows |-> {"u1"}, dropCreate |-> TRUE],
      [path |-> BACKUPS_DIR \o <<"/", "empty", ".sql">>,
       size |-> 0, markers |-> {},
       rows |-> {}, dropCreate |-> FALSE],
      [path |-> BACKUPS_DIR \o <<"/", "ecommerce_backup_2", ".sql", ".gz">>,
       size |-> 512, markers |-> {},
       rows |-> {"u1"}, dropCreate |-> TRUE],
      [path |-> BACKUPS_DIR \o <<"/", "ecommerce_backup_3", ".backup">>,
       size |-> 2048, markers |-> {"CREATE"},
       rows |-> {"u1"}, dropCreate |-> TRUE],
      [path |-> BACKUPS_DIR \o <<"/", "archive", ".backup">>,
       size |-> 128, markers |-> {},
       rows |-> {}, dropCreate |-> FALSE],
      [path |-> BACKUPS_DIR \o <<"/", "notes", ".txt">>,
       size |-> 64, markers |-> {"CREATE"},
       rows |-> {}, dropCreate |-> FALSE],
      [path |-> <<"/", "app", "/", "db", "/", "schema", ".sql">>,
       size |-> 4096, markers |-> {"CREATE", "INSERT"},
       rows |-> {}, dropCreate |-> FALSE],
      [path |-> <<"/", "app", "/", "backups", "_old", "/", "x", ".sql">>,
       size |-> 256, markers |-> {"CREATE"},
       rows |-> {"u2"}, dropCreate |-> TRUE] }

\* fs.existsSync
ExistsSync(p) == \E f \in Disk : f.path = p

\* fs.statSync / fs.readFileSync
StatSync(p) == CHOOSE f \in Disk : f.path = p

\* what psql / pg_restore find at the path they are given
NoFile == [path |-> <<>>, size |-> 0, markers |-> {}, rows |-> {},
           dropCreate |-> FALSE]

Artifact(p) == IF ExistsSync(p) THEN StatSync(p) ELSE NoFile

\* String.prototype.includes on the file content
Includes(p, marker) == marker \in StatSync(p).markers

\* the filename field of the request bodies the model sends
Filenames ==
    { <<>>,
      <<"ecommerce_backup_1", ".sql">>,
      <<"empty", ".sql">>,
      <<"ecommerce_backup_2", ".sql", ".gz">>,
      <<"ecommerce_backup_3", ".backup">>,
      <<"archive", ".backup">>,
      <<"notes", ".txt">>,
      <<"does-not-exist", ".sql">>,
      <<"..", "/", "does-not-exist", ".sql">>,
      <<"..", "/", "db", "/", "schema", ".sql">> }

\* filenames that leave the backup directory: through the parent into
\* another directory, and into the sibling directory backups_old, whose path
\* begins with the text of BACKUPS_DIR
TraversalFilenames ==
    { <<"..", "/", "db", "/", "schema", ".sql">>,
      <<"..", "/", "backups", "_old", "/", "x", ".sql">>,
      <<"..", "/", "backups", "_old", "/", "missing", ".sql">> }

----------------------------------------------------------------------------
(* Responses *)

NoCode == <<>>

NoResponse ==
    [status |-> 0, message |-> "", exitCode |-> NoCode, error |-> "",
     verified |-> "none", userCount |-> <<>>, verifyError |-> ""]

\* res.status(status).json({success: false, message, error, exitCode})
Failure(status, message, error, exitCode) ==
    [status |-> status, message |-> message, exitCode |-> exitCode,
     error |-> error, verified |-> "none", userCount |-> <<>>,
     verifyError |-> ""]

\* res.json({success: true, message, data: {verification, ...}})
Success(message, verification) ==
    [status |-> 200, message |-> message, exitCode |-> NoCode, error |-> "",
     verified |-> verification.verified, userCount |-> verification.userCount,
     verifyError |-> verification.error]

NoTool == [cmd |-> "none", database |-> "", flags |-> {}, input |-> "none"]

\* admin: the statements the handler has sent to the administrative database
\* (postgres) through its own pool; preRestoreBackup: the handler's reference
\* to a backup taken before the restore
Idle ==
    [ch |-> "none", file |-> <<>>, pc |-> "idle", responsesSent |-> FALSE,
     responses |-> 0, result |-> NoResponse, timer |-> "none",
     proc |-> "none", tool |-> NoTool, verify |-> "none",
     exit |-> NoCode, stderr |-> "", admin |-> {},
     preRestoreBackup |-> "null"]

\* res.json on a response object: the first call answers the request, a
\* later call finds the headers sent and changes nothing the client sees
Send(o, resp) ==
    [o EXCEPT !.responses = IF o.responses < 2 THEN o.responses + 1 ELSE 2,
              !.result = IF o.responses = 0 THEN resp ELSE o.result]

\* an early "return res.status(...).json(...)" of a route handler
Reply(o, resp) == [Send(o, resp) EXCEPT !.pc = "done"]

----------------------------------------------------------------------------
(* The external tools *)

\* exit codes a tool that was started can end with; <<>> is Node's null code
\* of a process ended by a signal
ExitCodes == {<<0>>, <<1>>, <<>>}

\* the code 'close' carries after a failed spawn (-errno of ENOENT)
SpawnFailedCode == <<-2>>

\* what the tool wrote to stderr
Stderrs == {"", "psql: error: connection to server failed"}

\* COPY users FROM stdin into an existing table: all rows or, on a duplicate
\* key, none
CopyInto(table, rows) == IF table \cap rows = {} THEN table \cup rows ELSE table

\* The users table after the tool has run on the artifact and ended with code.
\* psql is started without ON_ERROR_STOP on -d postgres: it ends 0 whether or
\* not the dump's DROP DATABASE was refused because of open sessions, and
\* after a refused DROP the dump's COPY loads into the table that is there.
\* pg_restore ends 0 only when every statement succeeded.
ToolOutcomes(tool, art, code, table) ==
    IF code = <<0>>
    THEN IF tool.cmd = "pg_restore" THEN {art.rows}
         ELSE IF art.dropCreate THEN {art.rows, CopyInto(table, art.rows)}
         ELSE {table}
    ELSE IF art.dropCreate THEN {table, {}} ELSE {table}

----------------------------------------------------------------------------
(* Primary route: router.post('/restore') *)

\* if (!filename)
FilenameMissing(filename) == filename = <<>>

\* the existence check left out
BackupFileMissing_Off(backupPath) == FALSE

\* if (!fs.existsSync(backupPath))
BackupFileMissing(backupPath) == ~ExistsSync(backupPath)

\* the size check left out
IsEmptyFile_Off(backupPath) == FALSE

\* if (stats.size === 0)
IsEmptyFile(backupPath) == StatSync(backupPath).size = 0

\* !includes('CREATE') && !includes('INSERT') && !includes('COPY')
NoSqlStatements(backupPath) ==
    /\ ~Includes(backupPath, "CREATE")
    /\ ~Includes(backupPath, "INSERT")
    /\ ~Includes(backupPath, "COPY")

\* the if / else if / else on filename.endsWith
PrimaryRestoreCommand(filename) ==
    IF EndsWith(filename, <<".backup">>)
    THEN [cmd |-> "pg_restore", database |-> "ecommerce_db",
          flags |-> {"--verbose", "--no-password", "--clean", "--if-exists",
                     "--create"},
          input |-> "file"]
    ELSE IF EndsWith(filename, <<".sql">>)
    THEN [cmd |-> "psql", database |-> "postgres",
          flags |-> {"--no-password", "-f"}, input |-> "file"]
    ELSE NoTool

\* the handler from its start to "await testPool.query('SELECT 1')"; force
\* is read from the body and not used
PrimaryValidate(o, filename, force) ==
    LET backupPath == PathJoin(BACKUPS_DIR, filename)
        req == [o EXCEPT !.ch = "primary", !.file = filename]
    IN  IF FilenameMissing(filename)
        THEN Reply(req, Failure(400, "Backup filename is required", "", NoCode))
        ELSE IF BackupFileMissing(backupPath)
        THEN Reply(req, Failure(404, "Backup file not found", "", NoCode))
        ELSE IF ~ExistsSync(backupPath)
        THEN \* fs.statSync throws ENOENT: the outer catch answers
             Reply(req, Failure(500, "Internal server error during restore",
                                "ENOENT", NoCode))
        ELSE IF IsEmptyFile(backupPath)
        THEN Reply(req, Failure(400, "Backup file is empty", "", NoCode))
        ELSE IF NoSqlStatements(backupPath)
        THEN Reply(req, Failure(400,
                 "Invalid backup file format - no SQL statements found", "",
                 NoCode))
        ELSE [req EXCEPT !.pc = "connTest"]

\* spawn(restoreCommand, args, ...) and setTimeout(..., 300000)
PrimarySpawn(o, tool, spawnOk) ==
    [o EXCEPT !.pc = "executing", !.tool = tool, !.timer = "armed",
              !.proc = IF spawnOk THEN "running" ELSE "failed"]

\* the catch (connError) block answering without its "return"
PrimaryDispatch_NoReturn(o, connected, spawnOk) ==
    LET tool == PrimaryRestoreCommand(o.file)
        t == [o EXCEPT !.admin = o.admin \cup {"SELECT 1"}]
        r == IF ~connected
             THEN Send(t, Failure(500, "Cannot connect to database",
                                  "connect ECONNREFUSED", NoCode))
             ELSE t
    IN  IF tool = NoTool
        THEN Reply(r, Failure(400, "Unsupported backup file format", "", NoCode))
        ELSE PrimarySpawn(r, tool, spawnOk)

\* the handler after the connection test: catch (connError), the dispatch on
\* the extension, the spawn
PrimaryDispatch(o, connected, spawnOk) ==
    LET tool == PrimaryRestoreCommand(o.file)
        t == [o EXCEPT !.admin = o.admin \cup {"SELECT 1"}]
    IN  IF ~connected
        THEN Reply(t, Failure(500, "Cannot connect to database",
                              "connect ECONNREFUSED", NoCode))
        ELSE IF tool = NoTool
        THEN Reply(t, Failure(400, "Unsupported backup file format", "", NoCode))
        ELSE PrimarySpawn(t, tool, spawnOk)

\* the callback without "responsesSent = true"
PrimaryOnTimeout_NoFlag(o) ==
    IF ~o.responsesSent
    THEN [Send(o, Failure(408, "Restore process timed out after 5 minutes",
                          "Timeout exceeded", NoCode))
          EXCEPT !.timer = "fired", !.pc = "done",
                 !.proc = IF o.proc = "running" THEN "signalled" ELSE o.proc]
    ELSE [o EXCEPT !.timer = "fired"]

\* the setTimeout callback
PrimaryOnTimeout(o) ==
    IF ~o.responsesSent
    THEN [Send(o, Failure(408, "Restore process timed out after 5 minutes",
                          "Timeout exceeded", NoCode))
          EXCEPT !.responsesSent = TRUE, !.timer = "fired", !.pc = "done",
                 !.proc = IF o.proc = "running" THEN "signalled" ELSE o.proc]
    ELSE [o EXCEPT !.timer = "fired"]

\* handlers that leave the timer armed
ClearTimeout_Off(o) == o

\* clearTimeout(timeout)
ClearTimeout(o) ==
    [o EXCEPT !.timer = IF o.timer = "armed" THEN "cleared" ELSE o.timer]

\* the close handler without "if (responsesSent) return"
PrimaryOnClose_Unguarded(o, code, stderr) ==
    LET c == [ClearTimeout(o) EXCEPT !.proc = "closed", !.exit = code,
                                     !.stderr = stderr]
    IN  IF code = <<0>>
        THEN [c EXCEPT !.pc = "verifying", !.verify = "pending"]
        ELSE [Send(c, Failure(500, "Database restore failed",
                              IF stderr # "" THEN stderr
                              ELSE "Unknown error occurred", code))
              EXCEPT !.responsesSent = TRUE, !.pc = "done"]

\* restoreProcess.on('close', async (code) => ...) up to the await of the
\* verification query
PrimaryOnClose(o, code, stderr) ==
    LET c == [ClearTimeout(o) EXCEPT !.proc = "closed", !.exit = code,
                                     !.stderr = stderr]
    IN  IF c.responsesSent THEN c
        ELSE IF code = <<0>>
        THEN [c EXCEPT !.pc = "verifying", !.verify = "pending"]
        ELSE [Send(c, Failure(500, "Database restore failed",
                              IF stderr # "" THEN stderr
                              ELSE "Unknown error occurred", code))
              EXCEPT !.responsesSent = TRUE, !.pc = "done"]

\* a close handler that answers 500 when the verification query fails
PrimaryOnVerified_Fatal(o, ok, table) ==
    IF ok
    THEN [Send(o, Success("Database restored successfully",
                          [verified |-> "true",
                           userCount |-> <<Cardinality(table)>>, error |-> ""]))
          EXCEPT !.responsesSent = TRUE, !.pc = "done", !.verify = "true"]
    ELSE [Send(o, Failure(500, "Database restore failed",
                          "relation users does not exist", NoCode))
          EXCEPT !.responsesSent = TRUE, !.pc = "done", !.verify = "false"]

\* the rest of the close handler: the outcome of SELECT COUNT(*) FROM users,
\* then res.json({success: true, ...})
PrimaryOnVerified(o, ok, table) ==
    LET verificationResult ==
            IF ok THEN [verified |-> "true", userCount |-> <<Cardinality(table)>>,
                        error |-> ""]
            ELSE [verified |-> "false", userCount |-> <<>>,
                  error |-> "relation users does not exist"]
    IN  [Send(o, Success("Database restored successfully", verificationResult))
         EXCEPT !.responsesSent = TRUE, !.pc = "done",
                !.verify = verificationResult.verified]

\* restoreProcess.on('error', (error) => ...)
PrimaryOnError(o) ==
    LET c == [ClearTimeout(o) EXCEPT !.proc = "failedClose"]
    IN  IF c.responsesSent THEN c
        ELSE [Send(c, Failure(500, "Failed to start restore process",
                              "spawn ENOENT", NoCode))
              EXCEPT !.responsesSent = TRUE, !.pc = "done"]

----------------------------------------------------------------------------
(* Recovery channel: app.post('/api/emergency/restore') *)

\* if (!backupPath.startsWith(BACKUPS_DIR))
InvalidBackupPath(backupPath) == ~StartsWith(backupPath, BACKUPS_DIR)

\* the if / else if / else on filename.endsWith
EmergencyRestoreCommand(filename) ==
    IF EndsWith(filename, <<".backup">>)
    THEN [cmd |-> "pg_restore", database |-> "ecommerce_db",
          flags |-> {"--verbose", "--no-password", "--clean", "--if-exists",
                     "--create"},
          input |-> "file"]
    ELSE IF EndsWith(filename, <<".sql">>)
    THEN [cmd |-> "psql", database |-> "postgres",
          flags |-> {"--no-password", "-f"}, input |-> "file"]
    ELSE NoTool

\* spawn(restoreCommand, args, ...): no timer is set on this channel
EmergencySpawn(o, tool, spawnOk) ==
    [o EXCEPT !.pc = "executing", !.tool = tool,
              !.proc = IF spawnOk THEN "running" ELSE "failed"]

\* the whole handler up to the registration of the process callbacks; the
\* pre-restore backup block of the !force branch only writes a log line and
\* leaves preRestoreBackup = null
EmergencyRestore(o, filename, force, spawnOk) ==
    LET backupPath == PathJoin(BACKUPS_DIR, filename)
        req == [o EXCEPT !.ch = "emergency", !.file = filename,
                         !.preRestoreBackup = "null"]
        tool == EmergencyRestoreCommand(filename)
    IN  IF FilenameMissing(filename)
        THEN Reply(req, Failure(400, "Backup filename is required", "", NoCode))
        ELSE IF InvalidBackupPath(backupPath)
        THEN Reply(req, Failure(400, "Invalid backup file path", "", NoCode))
        ELSE IF BackupFileMissing(backupPath)
        THEN Reply(req, Failure(404, "Backup file not found", "", NoCode))
        ELSE IF tool = NoTool
        THEN Reply(req, Failure(400, "Unsupported backup file format", "", NoCode))
        ELSE EmergencySpawn(req, tool, spawnOk)

\* a close handler that takes every exit for a success
EmergencyOnClose_AnyExit(o, code, stderr) ==
    [o EXCEPT !.proc = "closed", !.exit = code, !.stderr = stderr,
              !.pc = "verifying", !.verify = "pending"]

\* restoreProcess.on('close', async (code) => ...) up to the await of the
\* verification query
EmergencyOnClose(o, code, stderr) ==
    LET c == [o EXCEPT !.proc = "closed", !.exit = code, !.stderr = stderr]
    IN  IF code = <<0>>
        THEN [c EXCEPT !.pc = "verifying", !.verify = "pending"]
        ELSE [Send(c, Failure(500, "Emergency database restore failed",
                              stderr, code))
              EXCEPT !.pc = "done"]

\* the rest of the close handler
EmergencyOnVerified(o, ok, table) ==
    LET verificationResult ==
            IF ok THEN [verified |-> "true", userCount |-> <<Cardinality(table)>>,
                        error |-> ""]
            ELSE [verified |-> "false", userCount |-> <<>>,
                  error |-> "relation users does not exist"]
    IN  [Send(o, Success("Emergency database restore completed successfully",
                         verificationResult))
         EXCEPT !.pc = "done", !.verify = verificationResult.verified]

\* restoreProcess.on('error', (error) => ...)
EmergencyOnError(o) ==
    [Send(o, Failure(500, "Failed to start restore process", "spawn ENOENT",
                     NoCode))
     EXCEPT !.pc = "done", !.proc = "failedClose"]

----------------------------------------------------------------------------
(* The backup catalog: router.get('/backups'), app.get('/api/emergency/backups'),
   the last-backup lookup of router.get('/system-status') and the backup count
   of app.get('/api/emergency/status') *)

\* names and sizes of the files a backup directory may hold
CatalogFiles ==
    { [name |-> <<"ecommerce_backup_1", ".sql">>, size |-> 1024],
      [name |-> <<"empty", ".sql">>, size |-> 0],
      [name |-> <<"ecommerce_backup_2", ".sql", ".gz">>, size |-> 512],
      [name |-> <<"ecommerce_backup_3", ".backup">>, size |-> 2048],
      [name |-> <<"notes", ".txt">>, size |-> 64] }

\* fs.statSync of a file of the directory
DirEntries ==
    { [name |-> f.name, size |-> f.size, birthtime |-> b, mtime |-> m] :
        f \in CatalogFiles, b \in 1..MaxTime, m \in 1..MaxTime }

NoDirectory == [exists |-> FALSE, entries |-> <<>>]

\* the backup directory as fs.readdirSync finds it: the files in the order
\* the file system returns them
Directories ==
    {NoDirectory} \cup
    { [exists |-> TRUE, entries |-> e] :
        e \in UNION { { x \in [1..n -> DirEntries] :
                          \A i, j \in 1..n : i # j => x[i].name # x[j].name } :
                      n \in 0..MaxFiles } }

RECURSIVE InsertDesc(_, _, _)
\* the place of x in a sequence sorted by (a, b) => b[by] - a[by]: after the
\* elements that compare equal to it (Array.prototype.sort is stable)
InsertDesc(x, sorted, by) ==
    IF sorted = <<>> THEN <<x>>
    ELSE IF Head(sorted)[by] >= x[by]
         THEN <<Head(sorted)>> \o InsertDesc(x, Tail(sorted), by)
         ELSE <<x>> \o sorted

RECURSIVE SortDesc(_, _)
\* .sort((a, b) => b[by] - a[by])
SortDesc(seq, by) ==
    IF seq = <<>> THEN <<>>
    ELSE InsertDesc(seq[Len(seq)], SortDesc(SubSeq(seq, 1, Len(seq) - 1), by), by)

\* (stats.size / (1024 * 1024)).toFixed(2), in hundredths of a megabyte
ToFixed2MB(size) == (size * 100 + 524288) \div 1048576

NoCatalog ==
    [route |-> "none", status |-> 0, message |-> "", dir |-> NoDirectory,
     files |-> <<>>, total |-> 0, lastBackup |-> <<>>]

\* router.get('/backups'): readdirSync throws when the directory is missing
PrimaryBackups(d) ==
    IF ~d.exists
    THEN [NoCatalog EXCEPT !.route = "backups", !.dir = d, !.status = 500,
                           !.message = "Failed to list backup files"]
    ELSE LET sql == SelectSeq(d.entries, LAMBDA e : EndsWith(e.name, <<".sql">>))
             backupFiles ==
                 SortDesc([i \in 1..Len(sql) |->
                              [filename |-> sql[i].name,
                               size |-> ToFixed2MB(sql[i].size),
                               created |-> sql[i].birthtime,
                               modified |-> sql[i].mtime]], "created")
         IN  [NoCatalog EXCEPT !.route = "backups", !.dir = d, !.status = 200,
                               !.files = backupFiles,
                               !.total = Len(backupFiles)]

\* app.get('/api/emergency/backups') after emergencyAuth
EmergencyBackups(d) ==
    IF ~d.exists
    THEN [NoCatalog EXCEPT !.route = "emergency/backups", !.dir = d,
                           !.status = 404,
                           !.message = "Backups directory not found"]
    ELSE LET kept == SelectSeq(d.entries,
                               LAMBDA e : \/ EndsWith(e.name, <<".sql">>)
                                          \/ EndsWith(e.name, <<".backup">>))
             files ==
                 SortDesc([i \in 1..Len(kept) |->
                              [filename |-> kept[i].name,
                               size |-> kept[i].size,
                               sizeFormatted |-> ToFixed2MB(kept[i].size),
                               created |-> kept[i].birthtime,
                               modified |-> kept[i].mtime]], "modified")
         IN  [NoCatalog EXCEPT !.route = "emergency/backups", !.dir = d,
                               !.status = 200, !.files = files,
                               !.total = Len(files)]

\* the "Check last backup" block of router.get('/system-status'): the newest
\* .sql file by mtime, 'Never' (<<>>) when there is none
SystemStatusLastBackup(d) ==
    IF ~d.exists
    THEN [NoCatalog EXCEPT !.route = "system-status", !.dir = d, !.status = 200]
    ELSE LET sql == SelectSeq(d.entries, LAMBDA e : EndsWith(e.name, <<".sql">>))
             files ==
                 SortDesc([i \in 1..Len(sql) |->
                              [file |-> sql[i].name, time |-> sql[i].mtime]],
                          "time")
         IN  [NoCatalog EXCEPT !.route = "system-status", !.dir = d,
                               !.status = 200, !.files = files,
                               !.total = Len(files),
                               !.lastBackup = IF Len(files) > 0
                                              THEN <<files[1].time>>
                                              ELSE <<>>]

\* the "Get backup count" block of app.get('/api/emergency/status')
EmergencyStatus(d) ==
    LET kept == SelectSeq(d.entries,
                          LAMBDA e : \/ EndsWith(e.name, <<".sql">>)
                                     \/ EndsWith(e.name, <<".backup">>))
    IN  [NoCatalog EXCEPT !.route = "emergency/status", !.dir = d,
                          !.status = 200,
                          !.total = IF d.exists THEN Len(kept) ELSE 0]

----------------------------------------------------------------------------
(* Authentication of the recovery channel: emergencyAuth and
   app.post('/api/emergency/login') *)

\* character codes of the texts the model builds tokens from
Char == [colon |-> 58, a |-> 97, b |-> 98]

\* the 65th symbol of a base64 text, '='; the others are their values 0..63
Base64 == [pad |-> 64]

\* EMERGENCY_ADMIN_USERNAME / EMERGENCY_ADMIN_PASSWORD as configured
EMERGENCY_CREDENTIALS == [username |-> <<Char.a>>, password |-> <<Char.b>>]

Texts == UNION { [1..n -> {Char.colon, Char.a, Char.b}] : n \in 0..MaxTextLen }

RECURSIVE Base64Encode(_)
\* Buffer.from(text).toString('base64'): three bytes to four symbols, the
\* last group padded with '='
Base64Encode(bytes) ==
    IF bytes = <<>> THEN <<>>
    ELSE IF Len(bytes) = 1
    THEN <<bytes[1] \div 4, (bytes[1] % 4) * 16, Base64.pad, Base64.pad>>
    ELSE IF Len(bytes) = 2
    THEN <<bytes[1] \div 4, (bytes[1] % 4) * 16 + bytes[2] \div 16,
           (bytes[2] % 16) * 4, Base64.pad>>
    ELSE <<bytes[1] \div 4, (bytes[1] % 4) * 16 + bytes[2] \div 16,
           (bytes[2] % 16) * 4 + bytes[3] \div 64, bytes[3] % 64>>
         \o Base64Encode(SubSeq(bytes, 4, Len(bytes)))

RECURSIVE UpToPad(_)
\* the symbols before the first '='
UpToPad(token) ==
    IF token = <<>> THEN <<>>
    ELSE IF Head(token) = Base64.pad THEN <<>>
    ELSE <<Head(token)>> \o UpToPad(Tail(token))

RECURSIVE DecodeSymbols(_)
\* four symbols to three bytes; a last group of three gives two bytes, of
\* two gives one, of one gives none
DecodeSymbols(t) ==
    IF Len(t) < 2 THEN <<>>
    ELSE IF Len(t) = 2 THEN <<t[1] * 4 + t[2] \div 16>>
    ELSE IF Len(t) = 3
    THEN <<t[1] * 4 + t[2] \div 16, (t[2] % 16) * 16 + t[3] \div 4>>
    ELSE <<t[1] * 4 + t[2] \div 16, (t[2] % 16) * 16 + t[3] \div 4,
           (t[3] % 4) * 64 + t[4]>>
         \o DecodeSymbols(SubSeq(t, 5, Len(t)))

\* Buffer.from(token, 'base64').toString('utf-8'): decoding stops at the
\* padding and never throws
Base64Decode(token) == DecodeSymbols(UpToPad(token))

RECURSIVE SplitOn(_, _, _, _)
SplitOn(text, sep, cur, acc) ==
    IF text = <<>> THEN Append(acc, cur)
    ELSE IF Head(text) = sep
         THEN SplitOn(Tail(text), sep, <<>>, Append(acc, cur))
         ELSE SplitOn(Tail(text), sep, Append(cur, Head(text)), acc)

\* String.prototype.split(':')
Split(text) == SplitOn(text, Char.colon, <<>>, <<>>)

\* req.headers.authorization: the text before the token and the token
NoHeader == [scheme |-> "", token |-> <<>>]

\* the headers the model sends: none, another scheme, and a bearer token made
\* from each text, with and without its padding
Headers ==
    {NoHeader}
    \cup {[scheme |-> "Basic ",
           token |-> Base64Encode(EMERGENCY_CREDENTIALS.username
                                  \o <<Char.colon>>
                                  \o EMERGENCY_CREDENTIALS.password)]}
    \cup {[scheme |-> "Bearer ", token |-> Base64Encode(x)] : x \in Texts}
    \cup {[scheme |-> "Bearer ", token |-> UpToPad(Base64Encode(x))] : x \in Texts}

\* a middleware that compares the username only
EmergencyAuth_UsernameOnly(authHeader) ==
    IF authHeader.scheme # "Bearer "
    THEN [next |-> FALSE, status |-> 401,
          message |-> "Emergency authentication required", logged |-> ""]
    ELSE LET fields == Split(Base64Decode(authHeader.token))
         IN  IF fields[1] = EMERGENCY_CREDENTIALS.username
             THEN [next |-> TRUE, status |-> 0, message |-> "", logged |-> ""]
             ELSE [next |-> FALSE, status |-> 401,
                   message |-> "Invalid emergency credentials",
                   logged |-> "Failed emergency authentication attempt"]

\* function emergencyAuth(req, res, next); const [username, password] takes
\* the first two fields of the split, password is undefined when there is
\* one field only
EmergencyAuthWith(credentials, authHeader) ==
    IF authHeader.scheme # "Bearer "
    THEN [next |-> FALSE, status |-> 401,
          message |-> "Emergency authentication required", logged |-> ""]
    ELSE LET fields == Split(Base64Decode(authHeader.token))
         IN  IF /\ fields[1] = credentials.username
                /\ Len(fields) >= 2
                /\ fields[2] = credentials.password
             THEN [next |-> TRUE, status |-> 0, message |-> "", logged |-> ""]
             ELSE [next |-> FALSE, status |-> 401,
                   message |-> "Invalid emergency credentials",
                   logged |-> "Failed emergency authentication attempt"]

\* the middleware of a server configured with the model's credentials
EmergencyAuth(authHeader) == EmergencyAuthWith(EMERGENCY_CREDENTIALS, authHeader)

NoHttp ==
    [endpoint |-> "none", header |-> NoHeader, status |-> 0, message |-> "",
     handler |-> FALSE, logged |-> "", token |-> <<>>]

\* a request to a route registered as app.<method>(path, emergencyAuth,
\* handler): the handler runs when the middleware calls next(), and then
\* answers status / message
Route(a, endpoint, authHeader, status, message) ==
    [NoHttp EXCEPT !.endpoint = endpoint, !.header = authHeader,
                   !.handler = a.next, !.logged = a.logged,
                   !.status = IF a.next THEN status ELSE a.status,
                   !.message = IF a.next THEN message ELSE a.message]

\* a protected route of a server configured with the model's credentials
Protected(endpoint, authHeader, status, message) ==
    Route(EmergencyAuth(authHeader), endpoint, authHeader, status, message)

\* app.post('/api/emergency/login')
EmergencyLoginWith(credentials, username, password) ==
    IF /\ username = credentials.username
       /\ password = credentials.password
    THEN [NoHttp EXCEPT !.endpoint = "login", !.handler = TRUE,
                        !.status = 200,
                        !.message = "Emergency authentication successful",
                        !.logged = "Emergency login successful",
                        !.token = Base64Encode(username \o <<Char.colon>>
                                               \o password)]
    ELSE [NoHttp EXCEPT !.endpoint = "login", !.handler = TRUE,
                        !.status = 401,
                        !.message = "Invalid emergency credentials",
                        !.logged = "Emergency login failed"]

\* the login of a server configured with the model's credentials
EmergencyLogin(username, password) ==
    EmergencyLoginWith(EMERGENCY_CREDENTIALS, username, password)

----------------------------------------------------------------------------
(* The recovery log: logRecovery and app.get('/api/emergency/logs') *)

\* .slice(-100)
LogTail == 100

\* file: the text of logs/recovery.log; events: the number of calls of
\* logRecovery that wrote it; logs, total: data.logs and data.total of the last
\* answer of the logs endpoint, total = <<>> before the first
NoLog == [file |-> <<>>, events |-> 0, logs |-> <<>>, total |-> <<>>]

\* a logRecovery that starts the file again
LogRecovery_Truncating(l, message) ==
    [l EXCEPT !.file = <<"[t] ">> \o message \o <<"\n">>,
              !.events = @ + 1]

\* function logRecovery(message): fs.appendFileSync of `[${timestamp}]
\* ${message}\n`
LogRecovery(l, message) ==
    [l EXCEPT !.file = @ \o <<"[t] ">> \o message \o <<"\n">>,
              !.events = @ + 1]

RECURSIVE LogAll(_, _)
\* the calls of logRecovery one handler run makes, in their order
LogAll(l, messages) ==
    IF messages = <<>> THEN l
    ELSE LogAll(LogRecovery(l, Head(messages)), Tail(messages))

\* the log as n earlier runs of the server left it: one start line per run
OldLog(n) ==
    [NoLog EXCEPT
        !.file = [i \in 1..(3 * n) |->
                     IF i % 3 = 1 THEN "[t] "
                     ELSE IF i % 3 = 2
                     THEN "Emergency Recovery Server started on port 3002"
                     ELSE "\n"],
        !.events = n]

\* app.listen(PORT, () => logRecovery(...))
ServerStarted(l) ==
    LogRecovery(l, <<"Emergency Recovery Server started on port 3002">>)

RECURSIVE Lines(_)
\* String.prototype.split('\n'): the text between the line feeds, an empty
\* last element after a final line feed; computed by halves
Lines(text) ==
    IF text = <<>> THEN << <<>> >>
    ELSE IF Len(text) = 1
    THEN IF text[1] = "\n" THEN << <<>>, <<>> >> ELSE <<text>>
    ELSE LET m == Len(text) \div 2
             l == Lines(SubSeq(text, 1, m))
             r == Lines(SubSeq(text, m + 1, Len(text)))
         IN  SubSeq(l, 1, Len(l) - 1) \o << l[Len(l)] \o r[1] >> \o Tail(r)

\* .filter(line => line.trim())
NonBlank(lines) == SelectSeq(lines, LAMBDA line : line # <<>>)

\* Array.prototype.slice(-n)
SliceLast(seq, n) ==
    IF Len(seq) <= n THEN seq ELSE SubSeq(seq, Len(seq) - n + 1, Len(seq))

\* Array.prototype.reverse
Reverse(seq) == [i \in 1..Len(seq) |-> seq[Len(seq) + 1 - i]]

\* a logs endpoint that answers in the order of the file
EmergencyLogs_OldestFirst(l) ==
    LET logs == SliceLast(NonBlank(Lines(l.file)), LogTail)
    IN  [l EXCEPT !.logs = logs, !.total = <<Len(logs)>>]

\* app.get('/api/emergency/logs'): a file that does not exist and an empty
\* file both give logs: []
EmergencyLogs(l) ==
    LET logs == Reverse(SliceLast(NonBlank(Lines(l.file)), LogTail))
    IN  [l EXCEPT !.logs = logs, !.total = <<Len(logs)>>]

\* what psql and pg_restore wrote to stderr, as text: the tools end every
\* line of a diagnostic with a line feed, and the diagnostic of a refused
\* connection has a second line
StderrText(stderr) ==
    IF stderr = "" THEN <<>>
    ELSE <<stderr, "\n",
           "\tIs the server running on that host and accepting TCP/IP connections?",
           "\n">>

\* Number.prototype.toString of the exit code in a template literal
CodeText(code) ==
    IF code = <<>> THEN "null"
    ELSE IF code = <<0>> THEN "0"
    ELSE IF code = <<1>> THEN "1"
    ELSE "-2"

\* the messages app.post('/api/emergency/restore') logs before it returns
EmergencyRestoreLog(filename, force, scriptExists) ==
    LET backupPath == PathJoin(BACKUPS_DIR, filename)
        tool == EmergencyRestoreCommand(filename)
        starting == <<"Starting emergency database restore: ">> \o filename
        creating == IF ~force /\ scriptExists
                    THEN << <<"Creating pre-restore backup...">> >>
                    ELSE <<>>
    IN  IF FilenameMissing(filename) THEN <<>>
        ELSE IF InvalidBackupPath(backupPath)
        THEN << <<"Security violation: Invalid backup path attempted: ">>
                \o filename >>
        ELSE IF BackupFileMissing(backupPath) THEN <<>>
        ELSE IF tool = NoTool THEN <<starting>> \o creating
        ELSE <<starting>> \o creating
             \o << <<"Executing restore command: ", tool.cmd, " ">>
                   \o backupPath >>

\* the message the close handler logs before the verification query
EmergencyOnCloseLog(code, stderr) ==
    IF code = <<0>>
    THEN << <<"Emergency restore completed successfully in ", "${duration}ms">> >>
    ELSE << <<"Emergency restore failed with code ", CodeText(code), ": ">>
            \o StderrText(stderr) >>

\* the message the close handler logs after the verification query
EmergencyOnVerifiedLog(verified) ==
    IF verified = "true"
    THEN << <<"Restoration verified: ", "${count}", " users found">> >>
    ELSE << <<"Verification failed: ", "relation users does not exist">> >>

\* the message the error handler logs
EmergencyOnErrorLog ==
    << <<"Emergency restore process error: ", "spawn ENOENT">> >>

\* the messages app.post('/api/emergency/login') logs
EmergencyLoginLog(status) ==
    << <<"Emergency login attempt: ", "${username}">>,
       IF status = 200
       THEN <<"Emergency login successful: ", "${username}">>
       ELSE <<"Emergency login failed: ", "${username}">> >>

\* the message emergencyAuth logs
EmergencyAuthLog(logged) ==
    IF logged = "" THEN <<>>
    ELSE << <<"Failed emergency authentication attempt: ", "${username}">> >>

----------------------------------------------------------------------------
(* The backup producer: router.post('/backup') *)

\* req.body.backupType: absent, the three kinds, and a value that is none
BackupTypes == {"undefined", "complete", "schema-only", "data-only", "full"}

\* new Date().toISOString().replace(/[:.]/g, '-').split('T')[0] + '_' +
\* new Date().toTimeString().split(' ')[0].replace(/:/g, '-'), character by
\* character
Timestamps ==
    { date \o <<"_">> \o time :
        date \in { <<"2", "0", "2", "5", "-", "0", "6", "-", "2", "9">>,
                   <<"2", "0", "2", "6", "-", "1", "1", "-", "0", "2">> },
        time \in { <<"0", "0", "-", "0", "0", "-", "0", "0">>,
                   <<"2", "3", "-", "5", "9", "-", "5", "9">> } }

\* a producer that gives every kind the name of a complete backup
BackupFilename_OneName(backupType, timestamp) ==
    <<"e", "c", "o", "m", "m", "e", "r", "c", "e", "_", "b", "a", "c", "k", "u", "p", "_">> \o timestamp \o <<".", "s", "q", "l">>

\* the switch on backupType that names the file, character by character
BackupFilename(backupType, timestamp) ==
    <<"e", "c", "o", "m", "m", "e", "r", "c", "e", "_">>
    \o (IF backupType = "schema-only" THEN <<"s", "c", "h", "e", "m", "a">>
        ELSE IF backupType = "data-only" THEN <<"d", "a", "t", "a">>
        ELSE <<"b", "a", "c", "k", "u", "p">>)
    \o <<"_">> \o timestamp \o <<".", "s", "q", "l">>

\* the switch on backupType that completes pgDumpArgs
PgDumpArgs(backupType) ==
    {"--verbose", "-f"}
    \cup (IF backupType = "schema-only"
          THEN {"--schema-only", "--clean", "--if-exists", "--create",
                "--no-owner"}
          ELSE IF backupType = "data-only"
          THEN {"--data-only", "--disable-triggers", "--no-owner"}
          ELSE {"--clean", "--if-exists", "--create", "--no-owner",
                "--no-privileges"})

NoBackupResponse ==
    [status |-> 0, message |-> "", error |-> "", filename |-> <<>>,
     size |-> <<>>]

\* uncaught: the exception a callback of the process threw and nothing caught
NoDump ==
    [pc |-> "idle", backupType |-> "", filename |-> <<>>, args |-> {},
     proc |-> "none", exit |-> NoCode, errorOutput |-> "", responses |-> 0,
     result |-> NoBackupResponse, uncaught |-> ""]

\* what fs.statSync(backupPath) finds when 'close' is handled
DumpStats ==
    { [exists |-> FALSE, size |-> 0],
      [exists |-> TRUE, size |-> 0],
      [exists |-> TRUE, size |-> 2621440] }

\* res.json / res.status(500).json of the route: no flag guards it; a second
\* call throws ERR_HTTP_HEADERS_SENT inside the callback
BackupSend(d, resp) ==
    [d EXCEPT !.responses = IF d.responses < 2 THEN d.responses + 1 ELSE 2,
              !.result = IF d.responses = 0 THEN resp ELSE d.result,
              !.uncaught = IF d.responses = 0 THEN d.uncaught
                           ELSE "ERR_HTTP_HEADERS_SENT"]

\* the handler up to the registration of the process callbacks
ProduceBackup(d, backupType, timestamp, spawnOk) ==
    [d EXCEPT !.pc = "executing", !.backupType = backupType,
              !.filename = BackupFilename(backupType, timestamp),
              !.args = PgDumpArgs(backupType),
              !.proc = IF spawnOk THEN "running" ELSE "failed"]

\* a close handler that takes every exit for a success
BackupOnClose_AnyExit(d, code, errorOutput, stats) ==
    [BackupSend([d EXCEPT !.proc = "closed", !.exit = code,
                          !.errorOutput = errorOutput],
                [NoBackupResponse EXCEPT
                    !.status = 200,
                    !.message = "Database backup completed successfully",
                    !.filename = d.filename,
                    !.size = <<ToFixed2MB(stats.size)>>])
     EXCEPT !.pc = "done"]

\* pgDump.on('close', (code) => ...)
BackupOnClose(d, code, errorOutput, stats) ==
    LET c == [d EXCEPT !.proc = "closed", !.exit = code,
                       !.errorOutput = errorOutput, !.pc = "done"]
    IN  IF code = <<0>>
        THEN IF ~stats.exists
             THEN [c EXCEPT !.uncaught = "ENOENT"]
             ELSE BackupSend(c, [NoBackupResponse EXCEPT
                      !.status = 200,
                      !.message = "Database backup completed successfully",
                      !.filename = d.filename,
                      !.size = <<ToFixed2MB(stats.size)>>])
        ELSE BackupSend(c, [NoBackupResponse EXCEPT
                 !.status = 500,
                 !.message = "Database backup failed",
                 !.error = errorOutput])

\* pgDump.on('error', (error) => ...)
BackupOnError(d) ==
    [BackupSend(d, [NoBackupResponse EXCEPT
                       !.status = 500,
                       !.message = "Failed to start backup process",
                       !.error = "spawn pg_dump ENOENT"])
     EXCEPT !.pc = "done", !.proc = "failedClose"]

\* String.prototype.includes on a text of characters
IncludesText(text, part) ==
    \E i \in 1..(Len(text) - Len(part) + 1) :
        SubSeq(text, i, i + Len(part) - 1) = part

\* type: file.includes('schema') ? 'schema' : file.includes('data') ? 'data'
\* : 'complete' of app.get('/api/emergency/backups')
BackupTypeOf(file) ==
    IF IncludesText(file, <<"s", "c", "h", "e", "m", "a">>) THEN "schema"
    ELSE IF IncludesText(file, <<"d", "a", "t", "a">>) THEN "data"
    ELSE "complete"

\* the listing of app.get('/api/emergency/backups') for a directory that holds
\* one file, named character by character
EmergencyBackupsOfFile(file, stats) ==
    IF \/ EndsWith(file, <<".", "s", "q", "l">>)
       \/ EndsWith(file, <<".", "b", "a", "c", "k", "u", "p">>)
    THEN [NoCatalog EXCEPT
             !.route = "emergency/backups", !.status = 200,
             !.files = << [filename |-> file, size |-> stats.size,
                           sizeFormatted |-> ToFixed2MB(stats.size),
                           type |-> BackupTypeOf(file)] >>,
             !.total = 1]
    ELSE [NoCatalog EXCEPT !.route = "emergency/backups", !.status = 200]

----------------------------------------------------------------------------
(* Registration: router.post('/register') *)

\* the username and email fields of the bodies that pass userSchema
Usernames == {"ann", "bob"}
Emails == {"ann@shop.test", "bob@shop.test"}

NoRegistration ==
    [pc |-> "idle", username |-> "", email |-> "", status |-> 0,
     message |-> "", created |-> FALSE, heldOnArrival |-> FALSE]

\* users: the rows of the table in the order of their insertion; cart: the
\* usernames of the users that own a cart row; reqs: the requests in flight
NoAccounts ==
    [users |-> <<>>, cart |-> <<>>, reqs |-> [r \in Slots |-> NoRegistration]]

\* SELECT user_id FROM users WHERE email = $1 OR username = $2
ExistingUser(users, email, username) ==
    SelectSeq(users, LAMBDA u : u.email = email \/ u.username = username)

\* the handler up to the await of the SELECT
Register(q, users, username, email) ==
    [q EXCEPT !.pc = "select", !.username = username, !.email = email,
              !.heldOnArrival = ExistingUser(users, email, username) # <<>>]

\* from the answer of the SELECT to the await of the transaction
RegisterOnExisting(q, existingUser) ==
    IF Len(existingUser) > 0
    THEN [q EXCEPT !.pc = "done", !.status = 409,
                   !.message = "User with this email or username already exists"]
    ELSE [q EXCEPT !.pc = "transaction"]

\* a table without the UNIQUE constraints of username and email
UniqueViolation_Off(users, username, email) == FALSE

\* username VARCHAR(50) UNIQUE, email VARCHAR(100) UNIQUE of db/schema.sql
UniqueViolation(users, username, email) ==
    \E i \in 1..Len(users) :
        users[i].username = username \/ users[i].email = email

\* transaction(async (client) => ...): BEGIN, the two INSERTs, COMMIT, or
\* ROLLBACK and the error thrown to the catch of the handler
RegisterTransaction(acc, r, cartOk) ==
    LET q == acc.reqs[r]
    IN  IF UniqueViolation(acc.users, q.username, q.email) \/ ~cartOk
        THEN [acc EXCEPT !.reqs[r] =
                  [q EXCEPT !.pc = "done", !.status = 500,
                            !.message = "Internal server error"]]
        ELSE [acc EXCEPT
                 !.users = Append(@, [username |-> q.username,
                                      email |-> q.email]),
                 !.cart = Append(@, q.username),
                 !.reqs[r] = [q EXCEPT !.pc = "done", !.status = 201,
                                       !.message = "User created successfully",
                                       !.created = TRUE]]

----------------------------------------------------------------------------
(* The query console: router.post('/query'), router.post('/execute-query') *)

\* the words the model writes statements with, character by character
Word ==
    [SELECT |-> <<"S", "E", "L", "E", "C", "T">>,
     select |-> <<"s", "e", "l", "e", "c", "t">>,
     EXPLAIN |-> <<"E", "X", "P", "L", "A", "I", "N">>,
     DROP |-> <<"D", "R", "O", "P">>,
     explain |-> <<"e", "x", "p", "l", "a", "i", "n">>]

\* String.prototype.toLowerCase on the letters of the words
LowerOf ==
    [c \in {"S", "E", "L", "C", "T", "X", "P", "A", "I", "N", "D", "R", "O"} |->
        CASE c = "S" -> "s" [] c = "E" -> "e" [] c = "L" -> "l"
          [] c = "C" -> "c" [] c = "T" -> "t" [] c = "X" -> "x"
          [] c = "P" -> "p" [] c = "A" -> "a" [] c = "I" -> "i"
          [] c = "N" -> "n" [] c = "D" -> "d" [] c = "R" -> "r"
          [] c = "O" -> "o"]

ToLowerCase(text) ==
    [i \in 1..Len(text) |->
        IF text[i] \in DOMAIN LowerOf THEN LowerOf[text[i]] ELSE text[i]]

RECURSIVE TrimStart(_)
TrimStart(text) ==
    IF text # <<>> /\ Head(text) = " " THEN TrimStart(Tail(text)) ELSE text

RECURSIVE TrimEnd(_)
TrimEnd(text) ==
    IF text # <<>> /\ text[Len(text)] = " "
    THEN TrimEnd(SubSeq(text, 1, Len(text) - 1))
    ELSE text

\* String.prototype.trim
Trim(text) == TrimEnd(TrimStart(text))

\* one statement: a word and an operand, after an optional blank
SqlStatements ==
    { lead \o Word[w] \o <<" ", "1">> :
        lead \in {<<>>, <<" ">>}, w \in {"SELECT", "select", "EXPLAIN", "DROP"} }

\* the texts of the requests: absent or empty, blank, one statement, two
\* statements separated by ';'
SqlTexts ==
    {<<>>, <<" ">>}
    \cup SqlStatements
    \cup { a \o <<";">> \o b : a \in SqlStatements, b \in SqlStatements }

NoConsole ==
    [route |-> "none", sql |-> <<>>, status |-> 0, message |-> "",
     executed |-> <<>>]

\* a check that looks at nothing
NotAllowed_Off(sqlQuery) == FALSE

\* if (!trimmedSql.startsWith('select') && !trimmedSql.startsWith('explain'))
NotAllowed(sqlQuery) ==
    LET trimmedSql == ToLowerCase(Trim(sqlQuery))
    IN  /\ ~StartsWith(trimmedSql, Word.select)
        /\ ~StartsWith(trimmedSql, Word.explain)

\* the body of both handlers from the text on: executed is the text given to
\* query(), which sends it to the server in one simple-protocol message
RunQuery(route, sqlQuery, queryOk) ==
    IF sqlQuery = <<>> \/ Len(Trim(sqlQuery)) = 0
    THEN [NoConsole EXCEPT !.route = route, !.sql = sqlQuery, !.status = 400,
                           !.message = "SQL query is required"]
    ELSE IF NotAllowed(sqlQuery)
    THEN [NoConsole EXCEPT
             !.route = route, !.sql = sqlQuery, !.status = 403,
             !.message = "Only SELECT and EXPLAIN queries are allowed for security"]
    ELSE IF queryOk
    THEN [NoConsole EXCEPT !.route = route, !.sql = sqlQuery, !.status = 200,
                           !.executed = sqlQuery]
    ELSE [NoConsole EXCEPT !.route = route, !.sql = sqlQuery, !.status = 500,
                           !.message = "Query execution failed",
                           !.executed = sqlQuery]

\* router.post('/query'): const { sql } = req.body
Query(sql, queryOk) == RunQuery("query", sql, queryOk)

\* router.post('/execute-query'): const sqlQuery = sql || queryText
ExecuteQuery(sql, queryText, queryOk) ==
    RunQuery("execute-query", IF sql # <<>> THEN sql ELSE queryText, queryOk)

----------------------------------------------------------------------------
(* The state machine *)

NoLast == [file |-> <<>>, ch |-> "none", count |-> <<>>]

\* no request has been served
Quiet ==
    /\ op = [s \in Slots |-> Idle]
    /\ db \in SUBSET Rows
    /\ last = NoLast
    /\ served = 0
    /\ catalog = NoCatalog
    /\ http = NoHttp

Init ==
    /\ Quiet
    /\ log = NoLog
    /\ dump = NoDump
    /\ accounts = NoAccounts
    /\ console = NoConsole
    /\ env = EMERGENCY_CREDENTIALS

\* a request is accepted into the first free slot
FreeSlot(s) ==
    /\ op[s].pc = "idle"
    /\ \A t \in Slots : t < s => op[t].pc # "idle"
    /\ served < MaxRequests

\* POST /api/database/restore arrives with a filename among filenames and a
\* force flag among forces
PrimaryRequestOf(s, filenames, forces) ==
    /\ FreeSlot(s)
    /\ \E filename \in filenames, force \in forces :
          op' = [op EXCEPT ![s] = PrimaryValidate(op[s], filename, force)]
    /\ served' = served + 1
    /\ UNCHANGED <<db, last>>

\* POST /api/database/restore arrives with a force flag among forces
PrimaryRequestWith(s, forces) == PrimaryRequestOf(s, Filenames, forces)

\* POST /api/database/restore arrives
PrimaryRequest(s) == PrimaryRequestWith(s, BOOLEAN)

\* the connection test of the primary route settles
PrimaryConnTested(s) ==
    /\ op[s].ch = "primary"
    /\ op[s].pc = "connTest"
    /\ \E connected \in BOOLEAN, spawnOk \in BOOLEAN :
          op' = [op EXCEPT ![s] = PrimaryDispatch(op[s], connected, spawnOk)]
    /\ UNCHANGED <<db, last, served>>

\* POST /api/emergency/restore arrives with a filename among filenames and a
\* force flag among forces
EmergencyRequestOf(s, filenames, forces) ==
    /\ FreeSlot(s)
    /\ \E filename \in filenames, force \in forces, spawnOk \in BOOLEAN :
          op' = [op EXCEPT ![s] = EmergencyRestore(op[s], filename, force, spawnOk)]
    /\ served' = served + 1
    /\ UNCHANGED <<db, last>>

\* POST /api/emergency/restore arrives with a force flag among forces
EmergencyRequestWith(s, forces) == EmergencyRequestOf(s, Filenames, forces)

\* POST /api/emergency/restore arrives
EmergencyRequest(s) == EmergencyRequestWith(s, BOOLEAN)

\* the 5-minute timer expires: it runs whenever it is armed.  A failed spawn
\* emits 'error' on the next tick, before any timer can run, so the timer
\* never finds a process whose 'error' is still to be delivered.
Timeout(s) ==
    /\ op[s].timer = "armed"
    /\ op[s].proc # "failed"
    /\ op' = [op EXCEPT ![s] = PrimaryOnTimeout(op[s])]
    /\ UNCHANGED <<db, last, served>>

\* the 'error' event of a process that could not be spawned
SpawnError(s) ==
    /\ op[s].proc = "failed"
    /\ op' = [op EXCEPT ![s] = IF op[s].ch = "primary"
                                THEN PrimaryOnError(op[s])
                                ELSE EmergencyOnError(op[s])]
    /\ UNCHANGED <<db, last, served>>

\* the 'close' event that follows the 'error' event of a failed spawn
SpawnErrorClose(s) ==
    /\ op[s].proc = "failedClose"
    /\ op' = [op EXCEPT ![s] = IF op[s].ch = "primary"
                                THEN PrimaryOnClose(op[s], SpawnFailedCode, "")
                                ELSE EmergencyOnClose(op[s], SpawnFailedCode, "")]
    /\ UNCHANGED <<db, last, served>>

\* the tool ends (by itself or by the signal) and 'close' is delivered
ProcessClose(s) ==
    /\ op[s].proc \in {"running", "signalled"}
    /\ \E code \in ExitCodes, stderr \in Stderrs :
          LET art == Artifact(PathJoin(BACKUPS_DIR, op[s].file))
              next == IF op[s].ch = "primary"
                      THEN PrimaryOnClose(op[s], code, stderr)
                      ELSE EmergencyOnClose(op[s], code, stderr)
          IN  /\ op' = [op EXCEPT ![s] = next]
              /\ db' \in ToolOutcomes(op[s].tool, art, code, db)
              /\ last' = IF next.pc = "verifying"
                         THEN [file |-> op[s].file, ch |-> op[s].ch,
                               count |-> <<Cardinality(db')>>]
                         ELSE NoLast
    /\ UNCHANGED served

\* the verification query settles
Verified(s) ==
    /\ op[s].pc = "verifying"
    /\ \E ok \in BOOLEAN :
          op' = [op EXCEPT ![s] = IF op[s].ch = "primary"
                                   THEN PrimaryOnVerified(op[s], ok, db)
                                   ELSE EmergencyOnVerified(op[s], ok, db)]
    /\ UNCHANGED <<db, last, served>>

\* the request is over: its response is written and its process is gone
Finished(s) ==
    /\ op[s].pc = "done"
    /\ op[s].proc \in {"none", "closed"}
    /\ op' = [op EXCEPT ![s] = Idle]
    /\ UNCHANGED <<db, last, served>>

\* the restore routes; the requests of the recovery channel are those that
\* have passed emergencyAuth
Next ==
    /\ \E s \in Slots :
          \/ PrimaryRequest(s)
          \/ PrimaryConnTested(s)
          \/ EmergencyRequest(s)
          \/ Timeout(s)
          \/ SpawnError(s)
          \/ SpawnErrorClose(s)
          \/ ProcessClose(s)
          \/ Verified(s)
          \/ Finished(s)
    /\ UNCHANGED <<catalog, http, services>>

Spec == Init /\ [][Next]_vars

\* the caller serializes its requests: one request at a time, the next one
\* sent after the response to the one before
NextSerial ==
    /\ \/ PrimaryRequest(1)
       \/ PrimaryConnTested(1)
       \/ EmergencyRequest(1)
       \/ Timeout(1)
       \/ SpawnError(1)
       \/ SpawnErrorClose(1)
       \/ ProcessClose(1)
       \/ Verified(1)
       \/ Finished(1)
    /\ UNCHANGED <<catalog, http, services>>

SpecSerial == Init /\ [][NextSerial]_vars

\* every request leaves force at its default, false
NextUnforced ==
    /\ \E s \in Slots :
          \/ PrimaryRequestWith(s, {FALSE})
          \/ PrimaryConnTested(s)
          \/ EmergencyRequestWith(s, {FALSE})
          \/ Timeout(s)
          \/ SpawnError(s)
          \/ SpawnErrorClose(s)
          \/ ProcessClose(s)
          \/ Verified(s)
          \/ Finished(s)
    /\ UNCHANGED <<catalog, http, services>>

SpecUnforced == Init /\ [][NextUnforced]_vars

\* a caller that serializes its requests and also sends filenames that leave
\* the backup directory
NextTraversal ==
    /\ \/ PrimaryRequestOf(1, Filenames \cup TraversalFilenames, BOOLEAN)
       \/ PrimaryConnTested(1)
       \/ EmergencyRequestOf(1, Filenames \cup TraversalFilenames, BOOLEAN)
       \/ Timeout(1)
       \/ SpawnError(1)
       \/ SpawnErrorClose(1)
       \/ ProcessClose(1)
       \/ Verified(1)
       \/ Finished(1)
    /\ UNCHANGED <<catalog, http, services>>

SpecTraversal == Init /\ [][NextTraversal]_vars

----------------------------------------------------------------------------
(* The catalog routes: one request, which finds the directory as it is then *)

\* GET /api/database/backups
ListPrimaryBackups ==
    /\ catalog = NoCatalog
    /\ \E d \in Directories : catalog' = PrimaryBackups(d)
    /\ UNCHANGED <<op, db, last, served, http, services>>

\* GET /api/emergency/backups with the credentials of the channel
ListEmergencyBackups ==
    /\ catalog = NoCatalog
    /\ \E d \in Directories : catalog' = EmergencyBackups(d)
    /\ UNCHANGED <<op, db, last, served, http, services>>

\* GET /api/database/system-status
LookupLastBackup ==
    /\ catalog = NoCatalog
    /\ \E d \in Directories : catalog' = SystemStatusLastBackup(d)
    /\ UNCHANGED <<op, db, last, served, http, services>>

\* GET /api/emergency/status with the credentials of the channel
CountEmergencyBackups ==
    /\ catalog = NoCatalog
    /\ \E d \in Directories : catalog' = EmergencyStatus(d)
    /\ UNCHANGED <<op, db, last, served, http, services>>

NextCatalog ==
    \/ ListPrimaryBackups
    \/ ListEmergencyBackups
    \/ LookupLastBackup
    \/ CountEmergencyBackups

SpecCatalog == Init /\ [][NextCatalog]_vars

----------------------------------------------------------------------------
(* The recovery channel as a client without a session finds it: one request
   with any Authorization header *)

\* the directories the handlers find in this specification
AuthDirectories ==
    { d \in Directories :
        /\ Len(d.entries) <= 1
        /\ \A i \in 1..Len(d.entries) :
              d.entries[i].birthtime = 1 /\ d.entries[i].mtime = 1 }

\* GET /api/emergency/database-status
RecoveryDatabaseStatus ==
    /\ http = NoHttp
    /\ \E authHeader \in Headers, online \in BOOLEAN :
          http' = Protected("database-status", authHeader, 200,
                            IF online THEN "Database is accessible"
                            ELSE "Database is not accessible")
    /\ UNCHANGED <<op, db, last, served, catalog, services>>

\* GET /api/emergency/backups
RecoveryBackups ==
    /\ http = NoHttp
    /\ \E authHeader \in Headers, d \in AuthDirectories :
          LET listing == EmergencyBackups(d)
              x == Protected("backups", authHeader, listing.status,
                             listing.message)
          IN  /\ http' = x
              /\ catalog' = IF x.handler THEN listing ELSE catalog
    /\ UNCHANGED <<op, db, last, served, services>>

\* POST /api/emergency/restore; the response of a request that passed the
\* middleware is the one of the restore handler
RecoveryRestore ==
    /\ http = NoHttp
    /\ FreeSlot(1)
    /\ \E authHeader \in Headers, filename \in Filenames, force \in BOOLEAN,
          spawnOk \in BOOLEAN :
          LET started == EmergencyRestore(op[1], filename, force, spawnOk)
              x == Protected("restore", authHeader, started.result.status,
                             started.result.message)
          IN  /\ http' = x
              /\ op' = IF x.handler THEN [op EXCEPT ![1] = started] ELSE op
    /\ served' = served + 1
    /\ UNCHANGED <<db, last, catalog, services>>

\* GET /api/emergency/logs
RecoveryLogs ==
    /\ http = NoHttp
    /\ \E authHeader \in Headers :
          http' = Protected("logs", authHeader, 200, "")
    /\ UNCHANGED <<op, db, last, served, catalog, services>>

\* GET /api/emergency/status
RecoveryStatus ==
    /\ http = NoHttp
    /\ \E authHeader \in Headers, d \in AuthDirectories :
          LET x == Protected("status", authHeader, 200, "")
          IN  /\ http' = x
              /\ catalog' = IF x.handler THEN EmergencyStatus(d) ELSE catalog
    /\ UNCHANGED <<op, db, last, served, services>>

\* POST /api/emergency/login
RecoveryLogin ==
    /\ http = NoHttp
    /\ \E username \in Texts, password \in Texts :
          /\ Len(username) <= 1
          /\ Len(password) <= 1
          /\ http' = EmergencyLogin(username, password)
    /\ UNCHANGED <<op, db, last, served, catalog, services>>

NextAuth ==
    \/ RecoveryDatabaseStatus
    \/ RecoveryBackups
    \/ RecoveryRestore
    \/ RecoveryLogs
    \/ RecoveryStatus
    \/ RecoveryLogin

SpecAuth == Init /\ [][NextAuth]_vars

----------------------------------------------------------------------------
(* The recovery channel with its log: the server has started on the log of
   its earlier runs and serves requests one after the other *)

\* numbers of earlier runs of the server that have written to the log
PersistedRuns == {0, LogTail - 1, LogTail}

\* a filename that holds a line feed
LineFeedFilename == <<"..", "/", "x", "\n", "[t] ", "forged">>

\* the filenames of the restore requests of this specification
LogFilenames ==
    { <<>>,
      <<"ecommerce_backup_1", ".sql">>,
      <<"notes", ".txt">>,
      <<"does-not-exist", ".sql">>,
      <<"..", "/", "db", "/", "schema", ".sql">>,
      LineFeedFilename }

\* the Authorization headers of this specification: none, the configured
\* credentials, the configured username with another password
LogHeaders ==
    { NoHeader,
      [scheme |-> "Bearer ",
       token |-> Base64Encode(EMERGENCY_CREDENTIALS.username \o <<Char.colon>>
                              \o EMERGENCY_CREDENTIALS.password)],
      [scheme |-> "Bearer ",
       token |-> Base64Encode(EMERGENCY_CREDENTIALS.username \o <<Char.colon>>
                              \o EMERGENCY_CREDENTIALS.username)] }

\* the backup directories of this specification: none, and an empty one
LogDirectories == {d \in Directories : d.entries = <<>>}

InitLog ==
    /\ Quiet
    /\ log \in {ServerStarted(OldLog(n)) : n \in PersistedRuns}
    /\ dump = NoDump
    /\ accounts = NoAccounts
    /\ console = NoConsole
    /\ env = EMERGENCY_CREDENTIALS

\* POST /api/emergency/login
LogLogin ==
    /\ served < MaxRequests
    /\ \E username \in Texts, password \in Texts :
          /\ Len(username) <= 1
          /\ Len(password) <= 1
          /\ http' = EmergencyLogin(username, password)
          /\ log' = LogAll(log, EmergencyLoginLog(http'.status))
    /\ served' = served + 1
    /\ UNCHANGED <<op, db, last, catalog, dump, accounts, console, env>>

\* GET /api/emergency/backups with the credentials of the channel
LogBackups ==
    /\ served < MaxRequests
    /\ \E d \in LogDirectories : catalog' = EmergencyBackups(d)
    /\ log' = LogRecovery(log, <<"Listing backup files for emergency recovery">>)
    /\ served' = served + 1
    /\ UNCHANGED <<op, db, last, http, dump, accounts, console, env>>

\* POST /api/emergency/restore with the credentials of the channel
LogRestore ==
    /\ FreeSlot(1)
    /\ \E filename \in LogFilenames, force \in BOOLEAN,
          spawnOk \in BOOLEAN, scriptExists \in BOOLEAN :
          /\ op' = [op EXCEPT ![1] = EmergencyRestore(op[1], filename, force,
                                                      spawnOk)]
          /\ log' = LogAll(log, EmergencyRestoreLog(filename, force,
                                                    scriptExists))
    /\ served' = served + 1
    /\ UNCHANGED <<db, last, catalog, http, dump, accounts, console, env>>

\* the 'error' event of the restore process
LogSpawnError ==
    /\ SpawnError(1)
    /\ log' = LogAll(log, EmergencyOnErrorLog)
    /\ UNCHANGED <<catalog, http, dump, accounts, console, env>>

\* the 'close' event after the 'error' event
LogSpawnErrorClose ==
    /\ SpawnErrorClose(1)
    /\ log' = LogAll(log, EmergencyOnCloseLog(SpawnFailedCode, ""))
    /\ UNCHANGED <<catalog, http, dump, accounts, console, env>>

\* the 'close' event of a process that ran
LogProcessClose ==
    /\ ProcessClose(1)
    /\ log' = LogAll(log, EmergencyOnCloseLog(op'[1].exit, op'[1].stderr))
    /\ UNCHANGED <<catalog, http, dump, accounts, console, env>>

\* the verification query settles
LogVerified ==
    /\ Verified(1)
    /\ log' = LogAll(log, EmergencyOnVerifiedLog(op'[1].verify))
    /\ UNCHANGED <<catalog, http, dump, accounts, console, env>>

\* the restore request is over
LogFinished ==
    /\ Finished(1)
    /\ UNCHANGED <<catalog, http, log, dump, accounts, console, env>>

\* GET /api/emergency/logs with any Authorization header
ReadLogs ==
    /\ served < MaxRequests
    /\ \E authHeader \in LogHeaders :
          /\ http' = Protected("logs", authHeader, 200, "")
          /\ log' = IF http'.handler
                    THEN EmergencyLogs(log)
                    ELSE LogAll(log, EmergencyAuthLog(http'.logged))
    /\ served' = served + 1
    /\ UNCHANGED <<op, db, last, catalog, dump, accounts, console, env>>

NextLog ==
    \/ LogLogin
    \/ LogBackups
    \/ LogRestore
    \/ LogSpawnError
    \/ LogSpawnErrorClose
    \/ LogProcessClose
    \/ LogVerified
    \/ LogFinished
    \/ ReadLogs

SpecLog == InitLog /\ [][NextLog]_vars

----------------------------------------------------------------------------
(* The backup route: requests served one after the other *)

\* POST /api/database/backup
BackupRequest ==
    /\ dump.pc = "idle"
    /\ served < MaxRequests
    /\ \E backupType \in BackupTypes, timestamp \in Timestamps,
          spawnOk \in BOOLEAN :
          dump' = ProduceBackup(dump, backupType, timestamp, spawnOk)
    /\ served' = served + 1
    /\ UNCHANGED <<op, db, last, catalog, http, log, accounts, accounts, console, console, env>>

\* the 'error' event of a pg_dump that could not be spawned
BackupSpawnError ==
    /\ dump.proc = "failed"
    /\ dump' = BackupOnError(dump)
    /\ UNCHANGED <<op, db, last, served, catalog, http, log, accounts, accounts, console, console, env>>

\* the 'close' event that follows it
BackupSpawnErrorClose ==
    /\ dump.proc = "failedClose"
    /\ \E stats \in DumpStats :
          dump' = BackupOnClose(dump, SpawnFailedCode, "", stats)
    /\ UNCHANGED <<op, db, last, served, catalog, http, log, accounts, accounts, console, console, env>>

\* pg_dump ends and 'close' is delivered
BackupProcessClose ==
    /\ dump.proc = "running"
    /\ \E code \in ExitCodes, errorOutput \in Stderrs, stats \in DumpStats :
          dump' = BackupOnClose(dump, code, errorOutput, stats)
    /\ UNCHANGED <<op, db, last, served, catalog, http, log, accounts, accounts, console, console, env>>

\* the request is over
BackupFinished ==
    /\ dump.pc = "done"
    /\ dump.proc = "closed"
    /\ dump' = NoDump
    /\ UNCHANGED <<op, db, last, served, catalog, http, log, accounts, accounts, console, console, env>>

\* GET /api/emergency/backups with the credentials of the channel, after a
\* backup that succeeded: the directory holds the file it wrote
ListProducedBackup ==
    /\ dump.pc = "done"
    /\ dump.result.status = 200
    /\ catalog = NoCatalog
    /\ \E stats \in {st \in DumpStats : st.exists} :
          catalog' = EmergencyBackupsOfFile(dump.filename, stats)
    /\ UNCHANGED <<op, db, last, served, http, log, dump, accounts, console, env>>

NextBackup ==
    \/ ListProducedBackup
    \/ BackupRequest
    \/ BackupSpawnError
    \/ BackupSpawnErrorClose
    \/ BackupProcessClose
    \/ BackupFinished

SpecBackup == Init /\ [][NextBackup]_vars

----------------------------------------------------------------------------
(* Registration requests, in flight together *)

\* POST /register with a body that passes the validation
RegisterRequest(r) ==
    /\ accounts.reqs[r].pc = "idle"
    /\ served < MaxRequests
    /\ \E username \in Usernames, email \in Emails :
          accounts' = [accounts EXCEPT !.reqs[r] =
                          Register(@, accounts.users, username, email)]
    /\ served' = served + 1
    /\ UNCHANGED <<op, db, last, catalog, http, log, dump, console, console, env>>

\* the SELECT is answered from the rows committed by then
RegisterSelected(r) ==
    /\ accounts.reqs[r].pc = "select"
    /\ accounts' = [accounts EXCEPT !.reqs[r] =
                       RegisterOnExisting(@, ExistingUser(accounts.users,
                                                          @.email, @.username))]
    /\ UNCHANGED <<op, db, last, served, catalog, http, log, dump, console, console, env>>

\* the password is hashed and the transaction commits or rolls back
RegisterCommitted(r) ==
    /\ accounts.reqs[r].pc = "transaction"
    /\ \E cartOk \in BOOLEAN :
          accounts' = RegisterTransaction(accounts, r, cartOk)
    /\ UNCHANGED <<op, db, last, served, catalog, http, log, dump, console, console, env>>

\* the response has been received
RegisterFinished(r) ==
    /\ accounts.reqs[r].pc = "done"
    /\ accounts' = [accounts EXCEPT !.reqs[r] = NoRegistration]
    /\ UNCHANGED <<op, db, last, served, catalog, http, log, dump, console, console, env>>

NextRegister ==
    \E r \in Slots :
        \/ RegisterRequest(r)
        \/ RegisterSelected(r)
        \/ RegisterCommitted(r)
        \/ RegisterFinished(r)

SpecRegister == Init /\ [][NextRegister]_vars

----------------------------------------------------------------------------
(* The query console: one request *)

\* POST /api/database/query
PostQuery ==
    /\ console = NoConsole
    /\ \E sql \in SqlTexts, queryOk \in BOOLEAN :
          console' = Query(sql, queryOk)
    /\ UNCHANGED <<op, db, last, served, catalog, http, log, dump, accounts, env>>

\* POST /api/database/execute-query
PostExecuteQuery ==
    /\ console = NoConsole
    /\ \E sql \in SqlTexts, queryText \in SqlStatements \cup {<<>>},
          queryOk \in BOOLEAN :
          /\ sql = <<>> \/ queryText = <<>>
          /\ console' = ExecuteQuery(sql, queryText, queryOk)
    /\ UNCHANGED <<op, db, last, served, catalog, http, log, dump, accounts, env>>

NextConsole ==
    \/ PostQuery
    \/ PostExecuteQuery

SpecConsole == Init /\ [][NextConsole]_vars

----------------------------------------------------------------------------
(* The recovery channel under any configuration of its credentials: a login,
   then a request with a token *)

\* the values EMERGENCY_ADMIN_USERNAME and EMERGENCY_ADMIN_PASSWORD may have:
\* an empty value gives way to the default
Credentials ==
    { [username |-> u, password |-> p] :
        u \in {t \in Texts : Len(t) = 1},
        p \in {t \in Texts : Len(t) \in 1..2} }

\* the usernames and passwords a client builds a token from
TokenPairs ==
    { [username |-> u, password |-> p] :
        u \in {t \in Texts : Len(t) = 1},
        p \in {t \in Texts : Len(t) \in 1..3} }

\* what a client makes of a username and a password
TokenOf(pair) ==
    Base64Encode(pair.username \o <<Char.colon>> \o pair.password)

InitToken ==
    /\ Quiet
    /\ log = NoLog
    /\ dump = NoDump
    /\ accounts = NoAccounts
    /\ console = NoConsole
    /\ env \in Credentials

\* POST /api/emergency/login
TokenLogin ==
    /\ http = NoHttp
    /\ \E pair \in TokenPairs :
          http' = EmergencyLoginWith(env, pair.username, pair.password)
    /\ UNCHANGED <<op, db, last, served, catalog, log, dump, accounts, console,
                   env>>

\* GET /api/emergency/status with the token the login returned
TokenUsed ==
    /\ http.endpoint = "login"
    /\ http.status = 200
    /\ LET authHeader == [scheme |-> "Bearer ", token |-> http.token]
       IN  http' = [Route(EmergencyAuthWith(env, authHeader), "status",
                          authHeader, 200, "")
                    EXCEPT !.token = http.token]
    /\ UNCHANGED <<op, db, last, served, catalog, log, dump, accounts, console,
                   env>>

\* GET /api/emergency/status with a token built from a username and a password
TokenBuilt ==
    /\ http = NoHttp
    /\ \E pair \in TokenPairs :
          LET authHeader == [scheme |-> "Bearer ", token |-> TokenOf(pair)]
          IN  http' = Route(EmergencyAuthWith(env, authHeader), "status",
                            authHeader, 200, "")
    /\ UNCHANGED <<op, db, last, served, catalog, log, dump, accounts, console,
                   env>>

NextToken ==
    \/ TokenLogin
    \/ TokenUsed
    \/ TokenBuilt

SpecToken == InitToken /\ [][NextToken]_vars

----------------------------------------------------------------------------
(* Vocabulary of the properties *)

\* the outcome a response reports, in the terms of the error taxonomy
Outcome(r) ==
    IF r.status = 0 THEN "none"
    ELSE IF r.status = 200 THEN "Succeeded"
    ELSE IF r.status = 408 THEN "TimedOut"
    ELSE IF r.status = 404 THEN "ArtifactNotFound"
    ELSE IF r.message \in {"Backup file is empty",
                           "Invalid backup file format - no SQL statements found"}
    THEN "InvalidArtifact"
    ELSE IF r.message = "Unsupported backup file format" THEN "UnsupportedFormat"
    ELSE IF r.status = 400 THEN "BadRequest"
    ELSE "Failed"

\* position of a handler state in the forward order of the restore operation
Rank(pc) ==
    CASE pc = "idle" -> 0
      [] pc = "connTest" -> 1
      [] pc = "executing" -> 2
      [] pc = "verifying" -> 3
      [] pc = "done" -> 4

NonTerminal(o) == o.pc \in {"connTest", "executing", "verifying"}

\* the request names a file directly in the backup directory
PlainName(filename) ==
    /\ filename # <<>>
    /\ \A i \in 1..Len(filename) : filename[i] \notin {"/", "..", "."}

\* a tool process exists for the request
Spawned(o) == o.proc # "none" \/ o.tool # NoTool

RecognizedExtension(filename) ==
    \/ EndsWith(filename, <<".sql">>)
    \/ EndsWith(filename, <<".sql", ".gz">>)
    \/ EndsWith(filename, <<".backup">>)

\* a non-empty dump of a recognized format that loads SQL
ValidArtifact(filename) ==
    LET p == PathJoin(BACKUPS_DIR, filename)
    IN  /\ PlainName(filename)
        /\ ExistsSync(p)
        /\ StatSync(p).size > 0
        /\ RecognizedExtension(filename)
        /\ StatSync(p).dropCreate

\* the tool and input the format of the artifact calls for
ExpectedInvocation(filename) ==
    IF EndsWith(filename, <<".backup">>)
    THEN [cmd |-> "pg_restore", database |-> "ecommerce_db", input |-> "file"]
    ELSE IF EndsWith(filename, <<".sql", ".gz">>)
    THEN [cmd |-> "psql", database |-> "postgres", input |-> "gunzip"]
    ELSE [cmd |-> "psql", database |-> "postgres", input |-> "file"]

\* the close handler saw the tool end before the timer fired
ClosedBeforeTimeout(o) ==
    /\ o.proc = "closed"
    /\ o.timer # "fired"
    /\ o.exit # SpawnFailedCode

----------------------------------------------------------------------------
(* C1 *)

\* C1: on the primary route a request naming an existing file of size 0 is
\* answered 400 'Backup file is empty' and no tool process is spawned for it.
C1_EmptyFileRejected ==
    \A s \in Slots :
        ( /\ op[s].ch = "primary"
          /\ op[s].file # <<>>
          /\ ExistsSync(PathJoin(BACKUPS_DIR, op[s].file))
          /\ StatSync(PathJoin(BACKUPS_DIR, op[s].file)).size = 0 )
        => /\ op[s].pc = "done"
           /\ op[s].result.status = 400
           /\ op[s].result.message = "Backup file is empty"
           /\ Outcome(op[s].result) = "InvalidArtifact"
           /\ ~Spawned(op[s])

C1_Witness ==
    \E s \in Slots :
        /\ op[s].ch = "primary"
        /\ op[s].file = <<"empty", ".sql">>
        /\ op[s].responses = 1
        /\ op[s].result.message = "Backup file is empty"

----------------------------------------------------------------------------
(* C2 *)

\* C2: on the primary route an operation only moves forward, at most one
\* response is ever written, and once it is written neither the state nor
\* the reported result changes, whatever the order of timer, 'close',
\* 'error' and the verification query.
C2_ForwardSingleResult ==
    [][ \A s \in Slots :
          /\ op'[s].ch = "primary" => op'[s].responses <= 1
          /\ (op[s].ch = "primary" /\ op'[s].ch = "primary") =>
                /\ Rank(op'[s].pc) >= Rank(op[s].pc)
                /\ op[s].responses = 1 =>
                      /\ op'[s].result = op[s].result
                      /\ op'[s].pc = "done"
                      /\ op'[s].verify = op[s].verify
                /\ op'[s].responses = 1 =>
                      Outcome(op'[s].result) # "none" /\ op'[s].pc = "done" ]_vars

\* a failed spawn: 'error' was answered and the 'close' that follows it was
\* handled
C2_Witness ==
    \E s \in Slots :
        /\ op[s].ch = "primary"
        /\ op[s].proc = "closed"
        /\ op[s].exit = SpawnFailedCode
        /\ op[s].responses = 1
        /\ op[s].result.message = "Failed to start restore process"

----------------------------------------------------------------------------
(* C3 *)

\* C3: when the timed-out result has been returned to the caller, the
\* spawned process is no longer running.
C3_TimedOutProcessGone ==
    \A s \in Slots :
        Outcome(op[s].result) = "TimedOut" =>
            op[s].proc \notin {"running", "signalled"}

----------------------------------------------------------------------------
(* C4 *)

\* C4: once the timeout has fired the reported outcome is TimedOut and stays
\* so: the verification query is never run and no second result is written,
\* whatever code the signalled process later closes with.
C4_NothingAfterTimeout ==
    \A s \in Slots :
        op[s].timer = "fired" =>
            /\ Outcome(op[s].result) = "TimedOut"
            /\ op[s].responses = 1
            /\ op[s].verify = "none"
            /\ op[s].pc = "done"

\* the signalled process has closed with exit code 0 after the timeout
C4_Witness ==
    \E s \in Slots :
        /\ op[s].timer = "fired"
        /\ op[s].proc = "closed"
        /\ op[s].exit = <<0>>

----------------------------------------------------------------------------
(* C5 *)

\* C5: every valid artifact that reaches the dispatch is given to the tool
\* of its format (.sql: psql on postgres, .sql.gz: psql fed the decompressed
\* content, .backup: pg_restore --clean --if-exists --create), and no other
\* pairing is spawned.
C5_DispatchByFormat ==
    \A s \in Slots :
        /\ ( /\ op[s].pc \in {"executing", "verifying", "done"}
             /\ ValidArtifact(op[s].file)
             /\ op[s].result.message # "Cannot connect to database" )
           => /\ op[s].tool.cmd = ExpectedInvocation(op[s].file).cmd
              /\ op[s].tool.database = ExpectedInvocation(op[s].file).database
              /\ op[s].tool.input = ExpectedInvocation(op[s].file).input
        /\ op[s].tool.cmd = "pg_restore" =>
              /\ EndsWith(op[s].file, <<".backup">>)
              /\ {"--clean", "--if-exists", "--create"} \subseteq op[s].tool.flags
        /\ op[s].tool.cmd = "psql" => EndsWith(op[s].file, <<".sql">>)

----------------------------------------------------------------------------
(* C6 *)

\* C6: on either channel a request naming a file that is not in the backup
\* directory is answered 404 'Backup file not found' and no process is
\* spawned for it.
C6_MissingFileNotFound ==
    \A s \in Slots :
        ( /\ op[s].ch \in {"primary", "emergency"}
          /\ PlainName(op[s].file)
          /\ ~ExistsSync(PathJoin(BACKUPS_DIR, op[s].file)) )
        => /\ op[s].pc = "done"
           /\ op[s].responses = 1
           /\ op[s].result.status = 404
           /\ Outcome(op[s].result) = "ArtifactNotFound"
           /\ ~Spawned(op[s])

C6_Witness ==
    /\ op[1].ch = "primary"
    /\ op[2].ch = "emergency"
    /\ \A s \in Slots :
          /\ op[s].file = <<"does-not-exist", ".sql">>
          /\ op[s].result.status = 404

----------------------------------------------------------------------------
(* C7 *)

\* C7: when the tool has closed with exit code 0 before the timeout, the
\* operation is waiting for the verification query or has ended Succeeded;
\* a failed verification is recorded as verified = false with its error in
\* a success response.
C7_ExitZeroSucceeds ==
    \A s \in Slots :
        (ClosedBeforeTimeout(op[s]) /\ op[s].exit = <<0>>) =>
            \/ op[s].pc = "verifying" /\ op[s].responses = 0
            \/ /\ op[s].pc = "done"
               /\ Outcome(op[s].result) = "Succeeded"
               /\ op[s].result.verified = op[s].verify
               /\ op[s].verify \in {"true", "false"}
               /\ op[s].verify = "false" =>
                     /\ op[s].result.verifyError # ""
                     /\ op[s].result.userCount = <<>>

C7_Witness ==
    /\ op[1].ch = "primary"
    /\ op[2].ch = "emergency"
    /\ \A s \in Slots :
          /\ op[s].exit = <<0>>
          /\ op[s].result.status = 200
          /\ op[s].result.verified = "false"

----------------------------------------------------------------------------
(* C8 *)

\* C8: when the tool has closed with a code other than 0 before the
\* timeout, the operation has ended Failed, the response carries that exit
\* code and the stderr the tool wrote, and the verification query was not
\* run.
C8_NonzeroExitFails ==
    \A s \in Slots :
        (ClosedBeforeTimeout(op[s]) /\ op[s].exit # <<0>>) =>
            /\ op[s].pc = "done"
            /\ Outcome(op[s].result) = "Failed"
            /\ op[s].result.exitCode = op[s].exit
            /\ op[s].stderr # "" => op[s].result.error = op[s].stderr
            /\ op[s].verify = "none"
            /\ op[s].responses = 1

C8_Witness ==
    /\ op[1].ch = "primary"
    /\ op[2].ch = "emergency"
    /\ \A s \in Slots :
          /\ op[s].proc = "closed"
          /\ op[s].exit = <<1>>
          /\ op[s].stderr # ""
          /\ op[s].result.status = 500

----------------------------------------------------------------------------
(* C9 *)

\* C9: at most one restore operation is in a non-terminal state against the
\* target database at any time.
C9_OneRestoreAtATime ==
    Cardinality({s \in Slots : NonTerminal(op[s])}) <= 1

----------------------------------------------------------------------------
(* C10 *)

\* C10: when restore(A) of a valid complete artifact A has run to exit code 0
\* on the primary route and the next thing to touch the database is
\* restore(A) running to exit code 0 again, the reference table has the same
\* number of rows after the second run as after the first.
C10_RestoreIdempotent ==
    [][ \A s \in Slots :
          ( /\ op[s].ch = "primary"
            /\ op[s].pc = "executing"
            /\ op'[s].pc = "verifying"
            /\ ValidArtifact(op[s].file)
            /\ last.ch = "primary"
            /\ last.file = op[s].file )
          => <<Cardinality(db')>> = last.count ]_vars

----------------------------------------------------------------------------
(* Vocabulary of the preparation steps *)

\* the statement that ends the sessions of the target database
TerminateSessions == "SELECT pg_terminate_backend(pid) FROM pg_stat_activity"

DropDatabase == "DROP DATABASE IF EXISTS"

CreateDatabase == "CREATE DATABASE"

\* the handler has seen the database server answer its connection test
SawDatabaseAnswer(o) ==
    /\ "SELECT 1" \in o.admin
    /\ o.result.message # "Cannot connect to database"

----------------------------------------------------------------------------
(* C11 *)

\* C11: a tool process (the first destructive step) exists for a request
\* only after the handler has terminated the sessions of the target database
\* through the administrative database.
C11_TerminatedBeforeDestruction ==
    \A s \in Slots :
        Spawned(op[s]) => TerminateSessions \in op[s].admin

----------------------------------------------------------------------------
(* C12 *)

\* C12: when psql has been started for a plain-SQL artifact the handler has
\* issued DROP DATABASE IF EXISTS and CREATE DATABASE on the administrative
\* database; when pg_restore has been started it has issued neither.
C12_RecreateBeforePlainSql ==
    \A s \in Slots :
        /\ op[s].tool.cmd = "psql" =>
              {DropDatabase, CreateDatabase} \subseteq op[s].admin
        /\ op[s].tool.cmd = "pg_restore" =>
              op[s].admin \cap {DropDatabase, CreateDatabase} = {}

----------------------------------------------------------------------------
(* C13 *)

\* C13: when every request has force = false and the database answered, the
\* tool is started only after a safety backup has been attempted.
C13_SafetyBackupAttempted ==
    \A s \in Slots :
        (SawDatabaseAnswer(op[s]) /\ Spawned(op[s]))
            => op[s].preRestoreBackup # "null"

----------------------------------------------------------------------------
(* C14 *)

----------------------------------------------------------------------------
(* C15 *)

\* a plain-SQL format: a dump in SQL text, compressed or not
PlainSqlFormat(filename) ==
    \/ EndsWith(filename, <<".sql">>)
    \/ EndsWith(filename, <<".sql", ".gz">>)

\* the request names a file that exists and is not empty
NonEmptyFile(filename) ==
    /\ filename # <<>>
    /\ ExistsSync(PathJoin(BACKUPS_DIR, filename))
    /\ StatSync(PathJoin(BACKUPS_DIR, filename)).size > 0

RejectedForMarkers(o) ==
    o.result.message = "Invalid backup file format - no SQL statements found"

\* C15: on the primary route a non-empty artifact is rejected for lacking
\* CREATE, INSERT and COPY exactly when it is a plain-SQL file holding none
\* of them, and then no process is spawned; a non-empty .backup artifact is
\* never rejected by this check.
C15_MarkerCheckPlainSqlOnly ==
    \A s \in Slots :
        (op[s].ch = "primary" /\ NonEmptyFile(op[s].file)) =>
            /\ RejectedForMarkers(op[s]) <=>
                  /\ PlainSqlFormat(op[s].file)
                  /\ StatSync(PathJoin(BACKUPS_DIR, op[s].file)).markers = {}
            /\ RejectedForMarkers(op[s]) =>
                  Outcome(op[s].result) = "InvalidArtifact" /\ ~Spawned(op[s])
            /\ EndsWith(op[s].file, <<".backup">>) => ~RejectedForMarkers(op[s])

----------------------------------------------------------------------------
(* C16 *)

\* C16: a finished request for an existing non-empty file whose extension is
\* none of .sql, .sql.gz and .backup has ended UnsupportedFormat, and no tool
\* is ever spawned for such a file; a file with a recognized extension is
\* never rejected as unsupported.
C16_UnsupportedFormat ==
    \A s \in Slots :
        (op[s].ch # "none" /\ NonEmptyFile(op[s].file)) =>
            /\ ~RecognizedExtension(op[s].file) =>
                  /\ ~Spawned(op[s])
                  /\ op[s].pc = "done" =>
                        Outcome(op[s].result) = "UnsupportedFormat"
            /\ RecognizedExtension(op[s].file) =>
                  Outcome(op[s].result) # "UnsupportedFormat"

----------------------------------------------------------------------------
(* C17 *)

\* the request is over and its process, if any, is gone
Terminal(o) == o.pc = "done" /\ o.proc \in {"none", "closed"}

\* C17: a primary and a recovery-channel request for the same artifact with
\* the same force flag (false), once both are past their validation (the
\* database answering the primary route's connection test), have a tool
\* spawned in the same cases, and when both are over after the same tool
\* behaviour they report the same outcome.
C17_ChannelsAgree ==
    ( /\ op[1].ch = "primary"
      /\ op[2].ch = "emergency"
      /\ op[1].file = op[2].file
      /\ op[1].pc \in {"executing", "verifying", "done"}
      /\ op[2].pc \in {"executing", "verifying", "done"}
      /\ op[1].result.message # "Cannot connect to database" )
    => /\ Spawned(op[1]) = Spawned(op[2])
       /\ ( /\ Terminal(op[1]) /\ Terminal(op[2])
            /\ op[1].exit = op[2].exit
            /\ op[1].verify = op[2].verify
            /\ op[1].timer # "fired" )
          => Outcome(op[1].result) = Outcome(op[2].result)

----------------------------------------------------------------------------
(* Vocabulary of the catalog properties *)

\* the files of the directory have pairwise distinct modification times
DistinctMtimes(d) ==
    \A i, j \in 1..Len(d.entries) :
        i # j => d.entries[i].mtime # d.entries[j].mtime

\* the modification time of a listed entry
ModifiedOf(c, i) ==
    IF c.route = "system-status" THEN c.files[i].time ELSE c.files[i].modified

\* the name of a listed entry
NameOf(c, i) ==
    IF c.route = "system-status" THEN c.files[i].file ELSE c.files[i].filename

\* the routes that answer with a list of artifacts or with its first element
Listings == {"backups", "emergency/backups", "system-status"}

----------------------------------------------------------------------------
(* C18 *)

\* C18: when the files have pairwise distinct modification times, every
\* listing is in strictly descending order of modification time, and the
\* last backup reported by system status is the first element of its list.
C18_NewestFirst ==
    ( /\ catalog.route \in Listings
      /\ catalog.status = 200
      /\ DistinctMtimes(catalog.dir) )
    => /\ \A i, j \in 1..Len(catalog.files) :
             i < j => ModifiedOf(catalog, i) > ModifiedOf(catalog, j)
       /\ (catalog.route = "system-status" /\ Len(catalog.files) > 0) =>
             catalog.lastBackup = <<ModifiedOf(catalog, 1)>>

----------------------------------------------------------------------------
(* C19 *)

\* C19: a listing of a directory that exists has exactly one entry for each
\* of its files with extension .sql, .sql.gz or .backup, files of size 0
\* included, and is the empty sequence, not an error, when there is none.
C19_ListsRecognizedFiles ==
    ( /\ catalog.route \in {"backups", "emergency/backups"}
      /\ catalog.dir.exists )
    => /\ catalog.status = 200
       /\ {NameOf(catalog, i) : i \in 1..Len(catalog.files)}
             = {catalog.dir.entries[i].name : i \in
                  {k \in 1..Len(catalog.dir.entries) :
                      RecognizedExtension(catalog.dir.entries[k].name)}}
       /\ \A i, j \in 1..Len(catalog.files) :
             i # j => NameOf(catalog, i) # NameOf(catalog, j)
       /\ catalog.total = Len(catalog.files)

----------------------------------------------------------------------------
(* C20 *)

\* the routes registered with emergencyAuth
ProtectedEndpoints == {"database-status", "backups", "restore", "logs", "status"}

\* the text username:password of the configured credentials
ConfiguredText ==
    EMERGENCY_CREDENTIALS.username \o <<Char.colon>>
        \o EMERGENCY_CREDENTIALS.password

\* the header carries a bearer token whose text names the configured
\* username and password: username:password, alone or followed by a further
\* ':' field
DecodesToConfigured(h) ==
    /\ h.scheme = "Bearer "
    /\ \/ Base64Decode(h.token) = ConfiguredText
       \/ StartsWith(Base64Decode(h.token), ConfiguredText \o <<Char.colon>>)

----------------------------------------------------------------------------
(* C21 *)

\* the path names a file below the backup directory
InsideBackupDir(p) == StartsWith(p, BACKUPS_DIR \o <<"/">>)

\* the file the tool of a request is given with -f / as its last argument
ToolInput(o) == PathJoin(BACKUPS_DIR, o.file)

\* C21: no restore request, whatever filename it carries, has a restore tool
\* run on a file outside the backup directory
C21_NoToolOutsideBackupDir ==
    \A s \in Slots :
        Spawned(op[s]) => InsideBackupDir(ToolInput(op[s]))

\* the same on the primary route alone
C21_PrimaryStaysInside ==
    \A s \in Slots :
        (op[s].ch = "primary" /\ Spawned(op[s]))
            => InsideBackupDir(ToolInput(op[s]))

\* the same on the recovery channel alone
C21_EmergencyStaysInside ==
    \A s \in Slots :
        (op[s].ch = "emergency" /\ Spawned(op[s]))
            => InsideBackupDir(ToolInput(op[s]))

----------------------------------------------------------------------------
(* C22 *)

\* String.prototype.startsWith on the log text
IsPrefix(old, new) == StartsWith(new, old)

\* the lines of a text, each ended by its line feed
NumLines(text) == Len(Lines(text)) - 1

\* a step in which the logs endpoint has answered
LogsAnswered == log'.total # log.total \/ log'.logs # log.logs

\* C22 (first part): every line written earlier is still in the log,
\* unmodified and in its place; a step only adds text at the end
C22_LinesPreserved ==
    [][IsPrefix(log.file, log'.file)]_vars

\* C22 (last part): the logs endpoint leaves the log as it is and returns its
\* last lines, at most LogTail of them, the newest first
C22_LogsNewestFirst ==
    [][LogsAnswered =>
          LET all == NonBlank(Lines(log.file))
          IN  /\ log'.file = log.file
              /\ log'.events = log.events
              /\ Len(log'.logs) = IF Len(all) < LogTail THEN Len(all) ELSE LogTail
              /\ \A i \in 1..Len(log'.logs) :
                    log'.logs[i] = all[Len(all) + 1 - i]]_vars

\* C22: the recovery log is append-only, every logged event adds exactly one
\* line at its end, and the logs endpoint returns the most recent lines (at
\* most 100, newest first) without modifying the log
C22_AppendOnlyLog ==
    [][/\ IsPrefix(log.file, log'.file)
       /\ NumLines(log'.file) - NumLines(log.file) = log'.events - log.events
       /\ LogsAnswered =>
             /\ log'.file = log.file
             /\ Len(log'.logs) <= LogTail
             /\ \A i \in 1..Len(log'.logs) :
                   log'.logs[i] = NonBlank(Lines(log.file))
                                      [Len(NonBlank(Lines(log.file))) + 1 - i]]_vars

----------------------------------------------------------------------------
(* C23 *)

\* pg_dump could not be spawned and that has been handled
DumpSpawnFailed == dump.proc = "failedClose" \/ dump.exit = SpawnFailedCode

\* pg_dump ran and ended with a code other than 0
DumpExitedNonzero ==
    dump.proc = "closed" /\ dump.exit \notin {<<0>>, SpawnFailedCode}

\* C23: when the dump tool exits with a nonzero code or cannot be spawned, the
\* request ends in a failure that carries the captured stderr or the spawn
\* error, and no success with a filename and a size is reported for it
C23_DumpFailureReported ==
    /\ DumpExitedNonzero =>
          /\ dump.result.status = 500
          /\ dump.result.message = "Database backup failed"
          /\ dump.result.error = dump.errorOutput
          /\ dump.result.filename = <<>> /\ dump.result.size = <<>>
    /\ DumpSpawnFailed =>
          /\ dump.result.status = 500
          /\ dump.result.message = "Failed to start backup process"
          /\ dump.result.error = "spawn pg_dump ENOENT"
          /\ dump.result.filename = <<>> /\ dump.result.size = <<>>

\* pg_dump ended with code 1 after writing to stderr
C23_Witness ==
    /\ dump.proc = "closed"
    /\ dump.exit = <<1>>
    /\ dump.errorOutput # ""
    /\ dump.result.error = dump.errorOutput

\* pg_dump could not be spawned: 'error' and 'close' were both handled
C23_WitnessSpawn ==
    /\ dump.proc = "closed"
    /\ dump.exit = SpawnFailedCode
    /\ dump.result.status = 500

----------------------------------------------------------------------------
(* C26 *)

\* C26: every backup request is answered exactly once, whatever the events of
\* the dump process: never twice, and once when the request is over
C26_BackupAnsweredOnce ==
    /\ dump.responses <= 1
    /\ (dump.pc = "done" /\ dump.proc = "closed") => dump.responses = 1

\* the part of C26 about the failed spawn
C26_SpawnFailureAnsweredOnce ==
    DumpSpawnFailed => dump.responses = 1

\* the part of C26 about the size that cannot be read
C26_StatFailureAnswered ==
    (dump.proc = "closed" /\ dump.exit = <<0>>) => dump.responses = 1

----------------------------------------------------------------------------
(* C24 *)

\* the step answers the request of slot r
Answered(r) ==
    accounts.reqs[r].pc # "done" /\ accounts'.reqs[r].pc = "done"

\* C24: under every interleaving, a registration that is decided while its
\* email or username is held by an existing user is answered 409 and adds no
\* user row and no cart row, and no two users share an email
C24_DuplicateRejected ==
    [][\A r \in Slots :
          /\ (Answered(r) /\ ExistingUser(accounts.users, accounts.reqs[r].email,
                                          accounts.reqs[r].username) # <<>>)
                => /\ accounts'.reqs[r].status = 409
                   /\ accounts'.users = accounts.users
                   /\ accounts'.cart = accounts.cart
          /\ \A i, j \in 1..Len(accounts'.users) :
                accounts'.users[i].email = accounts'.users[j].email => i = j]_vars

\* the part of C24 that needs no order: a request that arrives when its
\* email or username is held is answered 409 and creates nothing
C24_HeldOnArrivalRejected ==
    \A r \in Slots :
        (accounts.reqs[r].pc = "done" /\ accounts.reqs[r].heldOnArrival)
            => accounts.reqs[r].status = 409 /\ ~accounts.reqs[r].created

\* the parts of C24 about the rows: a request that is not answered 201 adds
\* no row, a user row comes with its cart row, and usernames and emails are
\* held once
C24_RowsConsistent ==
    [][/\ \A r \in Slots :
             (Answered(r) /\ accounts'.reqs[r].status # 201)
                 => accounts'.users = accounts.users
                    /\ accounts'.cart = accounts.cart
       /\ Len(accounts'.users) = Len(accounts'.cart)
       /\ \A i, j \in 1..Len(accounts'.users) :
             (\/ accounts'.users[i].email = accounts'.users[j].email
              \/ accounts'.users[i].username = accounts'.users[j].username)
                 => i = j]_vars

----------------------------------------------------------------------------
(* C25 *)

\* C25: on the recovery channel every restore request is answered exactly
\* once under every order of the events of the child process: no event
\* writes a second response, and a request that is over has its response
C25_EmergencyAnsweredOnce ==
    \A s \in Slots :
        op[s].ch = "emergency" =>
            /\ op[s].responses <= 1
            /\ Terminal(op[s]) => op[s].responses = 1

----------------------------------------------------------------------------
(* C27 *)

\* the 'close' or 'error' event of the tool process has been handled
ProcessEventHandled(o) == o.proc \in {"closed", "failedClose"}

\* C27: on the primary route the timer is cancelled when 'close' or 'error'
\* is handled: once the process has exited or failed to start the timer is
\* not armed, and no later step runs the timeout handler, signals the
\* process or turns the result into the timed-out one, the steps taken while
\* the verification query is pending included
C27_TimerCancelledOnExit ==
    [][\A s \in Slots :
          /\ (op'[s].ch = "primary" /\ ProcessEventHandled(op'[s]))
                => op'[s].timer # "armed"
          /\ (op[s].ch = "primary" /\ ProcessEventHandled(op[s])
              /\ op'[s].ch = "primary")
                => /\ op'[s].timer = op[s].timer
                   /\ op'[s].proc # "signalled"
                   /\ Outcome(op'[s].result) = "TimedOut"
                         => Outcome(op[s].result) = "TimedOut"]_vars

\* the tool has exited with code 0 before the timer ran and the verification
\* query is pending
C27_Witness ==
    \E s \in Slots :
        /\ op[s].ch = "primary"
        /\ op[s].proc = "closed"
        /\ op[s].pc = "verifying"
        /\ op[s].timer = "cleared"

\* the 'error' event of a failed spawn has been handled on the primary route
C27_WitnessError ==
    \E s \in Slots :
        /\ op[s].ch = "primary"
        /\ op[s].proc = "failedClose"
        /\ op[s].timer = "cleared"

----------------------------------------------------------------------------
(* C28 *)

\* the first word of a statement, lower case
RECURSIVE UpToBlank(_)
UpToBlank(text) ==
    IF text = <<>> \/ Head(text) = " " THEN <<>>
    ELSE <<Head(text)>> \o UpToBlank(Tail(text))

Keyword(statement) == UpToBlank(ToLowerCase(Trim(statement)))

\* the statements of a text: what stands between the ';', blanks left out
StatementsOf(text) ==
    SelectSeq(SplitOn(text, ";", <<>>, <<>>), LAMBDA st : Trim(st) # <<>>)

\* the text holds a statement that is neither a SELECT nor an EXPLAIN
HoldsOtherStatement(text) ==
    \E i \in 1..Len(StatementsOf(text)) :
        Keyword(StatementsOf(text)[i]) \notin {Word.select, Word.explain}

\* C28: a request to /query or /execute-query that holds a statement other
\* than SELECT or EXPLAIN is answered 403 and query() is not called with it
C28_OnlyReadStatements ==
    (console.route # "none" /\ HoldsOtherStatement(console.sql)) =>
        /\ console.status = 403
        /\ console.executed = <<>>

\* the part of C28 the check does enforce: a text whose first statement is
\* neither a SELECT nor an EXPLAIN is answered 403 and never given to query()
C28_FirstStatementChecked ==
    (/\ console.route # "none"
     /\ StatementsOf(console.sql) # <<>>
     /\ Keyword(StatementsOf(console.sql)[1]) \notin {Word.select, Word.explain})
        => /\ console.status = 403
           /\ console.executed = <<>>

----------------------------------------------------------------------------
(* C29 *)

\* the kind the catalog is to report for a backupType of the producer
KindOf(backupType) ==
    IF backupType = "schema-only" THEN "schema"
    ELSE IF backupType = "data-only" THEN "data"
    ELSE "complete"

\* the recovery channel's last listing is the one of the file the request
\* in dump wrote
ProducedListed ==
    /\ catalog.route = "emergency/backups"
    /\ dump.pc = "done"
    /\ catalog.files # <<>>
    /\ catalog.files[1].filename = dump.filename

\* C29: the file the producer names for a kind is listed by the recovery
\* channel's catalog with that kind (complete / schema / data), whatever the
\* timestamp, and a backupType that is none of the three is produced and
\* listed as complete
C29_KindRoundTrip ==
    [][/\ (catalog = NoCatalog /\ catalog' # NoCatalog) =>
             /\ Len(catalog'.files) = 1
             /\ catalog'.files[1].filename = dump.filename
             /\ catalog'.files[1].type = KindOf(dump.backupType)
       /\ (dump'.pc # "idle"
           /\ dump'.backupType \notin {"complete", "schema-only", "data-only"}) =>
             /\ dump'.args = PgDumpArgs("complete")
             /\ \E timestamp \in Timestamps :
                   dump'.filename = BackupFilename("complete", timestamp)]_vars

\* a schema-only backup has been produced and listed as schema
C29_Witness ==
    /\ ProducedListed
    /\ dump.backupType = "schema-only"
    /\ catalog.files[1].type = "schema"

\* a backup of an unrecognized backupType has been listed as complete
C29_WitnessUnrecognized ==
    /\ ProducedListed
    /\ dump.backupType = "full"
    /\ catalog.files[1].type = "complete"

----------------------------------------------------------------------------
(* C30 *)

\* the last request was made with the token a successful login returned
UsedLoginToken ==
    /\ http.endpoint = "status"
    /\ http.token # <<>>
    /\ http.header.token = http.token

\* the last request was made with a token built from a pair that is not the
\* configured one
UsedOtherPair(pair) ==
    /\ http.endpoint = "status"
    /\ http.header.token = TokenOf(pair)
    /\ pair # env

\* C30: whatever username and password are configured, the token a
\* successful login returns is accepted by emergencyAuth on a later request,
\* and a token built from any other username and password is rejected
C30_TokenRoundTrip ==
    /\ UsedLoginToken => http.handler
    /\ \A pair \in TokenPairs : UsedOtherPair(pair) => ~http.handler

\* the first half of C30
C30_LoginTokenAccepted == UsedLoginToken => http.handler

\* the second half of C30
C30_OtherPairRejected ==
    \A pair \in TokenPairs : UsedOtherPair(pair) => ~http.handler

\* C30 where neither the configured credentials nor the pair hold a ':'
C30_ColonFreeRoundTrip ==
    LET ColonFree(pair) ==
            /\ \A i \in 1..Len(pair.username) : pair.username[i] # Char.colon
            /\ \A i \in 1..Len(pair.password) : pair.password[i] # Char.colon
    IN  ColonFree(env) =>
            /\ UsedLoginToken => http.handler
            /\ \A pair \in TokenPairs :
                  UsedOtherPair(pair) /\ ColonFree(pair) => ~http.handler

============================================================================
